---- MODULE Spec2Model ----
(***************************************************************************)
(* Model of the My-Movie-Gallery maintenance scripts: the library store    *)
(* (data/library.json), the scripts that upsert entries into it            *)
(* (add_movie, promote_movie, import_douban, import_from_json,             *)
(* add-web-video), the merge helpers they share, the snapshot builder      *)
(* (fetch_movies) and the credential checks at script start.               *)
(*                                                                         *)
(* Encoding of JavaScript values:                                          *)
(*   - a date string is a natural number: 0 is the empty string / null /   *)
(*     absent, 1..MaxDay are the ISO calendar dates YYYY-MM-DD in          *)
(*     chronological order (so the numeric order is the order of           *)
(*     String.prototype.localeCompare on them), values above MaxDay are    *)
(*     stored strings that are not ISO dates;                              *)
(*   - an id is the natural number standing for String(id);                *)
(*   - rating -1 is "no number" (undefined / null), note 0 and title 0 are *)
(*     null / absent, mediaType "" and status "" are absent.               *)
(***************************************************************************)
EXTENDS Integers, Sequences, FiniteSets, TLC

VARIABLES
    lib,      \* the parsed content of data/library.json
    last,     \* history: the last script run (operation, inputs, library before)
    clock,    \* Date.now() of the next add-web-video run
    ops,      \* number of script runs so far
    mrg,      \* merge harness: the (existing, incoming) pair and the results
    snap,     \* snapshot builder run: position, responses, enriched items, exit code
    outFile,  \* content of data/movies.json (its items), "absent" flag included
    cred,     \* credential harness: script, environment, position, I/O count
    job       \* one run of a batch script, a fetcher or a parser, step by step

vars == <<lib, last, clock, ops, mrg, snap, outFile, cred, job>>

\* ---------------------------------------------------------------- bounds
MaxId == 2
MaxDay == 2
MaxOps == 2

Ids == 1..MaxId
Days == 1..MaxDay
Statuses == {"watching", "watched", "wishlist"}

\* ------------------------------------------------------- generic helpers
RECURSIVE SeqToSet(_)
SeqToSet(s) == IF s = <<>> THEN {} ELSE {Head(s)} \cup SeqToSet(Tail(s))

Max(S) == CHOOSE x \in S : \A y \in S : y <= x
Min(S) == CHOOSE x \in S : \A y \in S : x <= y

RECURSIVE SortDescSet(_)
SortDescSet(S) == IF S = {} THEN <<>> ELSE <<Max(S)>> \o SortDescSet(S \ {Max(S)})

RECURSIVE SortAscSet(_)
SortAscSet(S) == IF S = {} THEN <<>> ELSE <<Min(S)>> \o SortAscSet(S \ {Min(S)})

Truthy(d) == d # 0

\* The same without .filter(Boolean).
DedupeSortDescUnfiltered(a, b) == SortDescSet(SeqToSet(a \o b))

\* Array.from(new Set([...a, ...b].filter(Boolean))).sort((x, y) => y.localeCompare(x))
DedupeSortDesc(a, b) == SortDescSet({d \in SeqToSet(a \o b) : Truthy(d)})

\* Array.from(new Set([...a, ...b].filter(Boolean))).sort((x, y) => x.localeCompare(y))
DedupeSortAsc(a, b) == SortAscSet({d \in SeqToSet(a \o b) : Truthy(d)})

\* A filter that keeps every item.
removeByIdKeepsAll(list, id) == list

\* list.filter(item => String(item.id) !== String(id))
removeById(list, id) == SelectSeq(list, LAMBDA item : item.id # id)

\* list.findIndex(item => String(item.id) === String(id)); 0 stands for -1
findIndex(list, id) ==
    IF \E i \in 1..Len(list) : list[i].id = id
    THEN Min({i \in 1..Len(list) : list[i].id = id})
    ELSE 0

\* list.splice(index, 1)
splice(list, index) == [i \in 1..(Len(list) - 1) |-> IF i < index THEN list[i] ELSE list[i + 1]]

\* ----------------------------------------------------------------- entries
Entry(id, title, mediaType, status, hasDates, watchDates, watchDate, rating, note) ==
    [id |-> id, title |-> title, mediaType |-> mediaType, status |-> status,
     hasDates |-> hasDates, watchDates |-> watchDates, watchDate |-> watchDate,
     rating |-> rating, note |-> note]

\* Array.isArray(e.watchDates) ? e.watchDates : e.watchDate ? [e.watchDate] : []
extractDates(e) ==
    IF e.hasDates THEN e.watchDates
    ELSE IF Truthy(e.watchDate) THEN <<e.watchDate>> ELSE <<>>

EmptyLibrary == [watching |-> <<>>, watched |-> <<>>, wishlist |-> <<>>, undefined |-> <<>>]

flattenLists(library) == library.watching \o library.watched \o library.wishlist

\* ------------------------------------------------------------ date parsing
\* Input date strings, by their shape: "" ; "YYYY-MM-DD" ; "YYYY/MM/DD" ; text
\* that Date cannot parse.
RawDates ==
    {[form |-> "empty", day |-> 0], [form |-> "junk", day |-> 0]}
        \cup {[form |-> "iso", day |-> d] : d \in Days}
        \cup {[form |-> "slash", day |-> d] : d \in 2..MaxDay}

TimeZones == {"utc", "east"}

\* new Date(value).toISOString().slice(0, 10), null (0) when !value or the time is NaN.
\* A date-only ISO string is read as UTC; any other form is read as local time, so
\* east of Greenwich local midnight is the previous UTC day.
normaliseDate(raw, tz) ==
    CASE raw.form = "empty" -> 0
      [] raw.form = "junk" -> 0
      [] raw.form = "iso" -> raw.day
      [] raw.form = "slash" -> IF tz = "east" THEN raw.day - 1 ELSE raw.day

\* The string itself, as add-web-video stores it.
RawString(raw) ==
    CASE raw.form = "empty" -> 0
      [] raw.form = "iso" -> raw.day
      [] raw.form = "slash" -> MaxDay + 1
      [] raw.form = "junk" -> MaxDay + 2

IsIsoDate(d) == d \in Days

\* ------------------------------------------------------ add_movie (current)
NullEntry == Entry(0, 0, "", "", FALSE, <<>>, 0, -1, 0)
IsNull(e) == e.id = 0

\* mergeEntry(existing, incoming) of add_movie: the incoming fields win, the
\* existing note / rating / mediaType / status fill the gaps, the dates are united.
mergeEntry(existing, incoming) ==
    LET mergedDates == DedupeSortDesc(extractDates(existing), extractDates(incoming))
        filled ==
            [incoming EXCEPT
                !.note = IF incoming.note = 0 /\ existing.note # 0 THEN existing.note ELSE @,
                !.rating = IF incoming.rating = -1 /\ existing.rating # -1
                           THEN existing.rating ELSE @,
                !.mediaType = IF incoming.mediaType = "" /\ existing.mediaType # ""
                              THEN existing.mediaType ELSE @,
                !.hasDates = IF mergedDates # <<>> THEN TRUE ELSE @,
                !.watchDates = IF mergedDates # <<>> THEN mergedDates ELSE @,
                !.status = IF incoming.status = "" /\ existing.status # ""
                           THEN existing.status ELSE @]
    IN  [(IF IsNull(existing) THEN incoming ELSE filled) EXCEPT !.watchDate = 0]

\* The loop of insertEntry over Object.values(buckets): each list loses its first
\* entry with the id, and existingEntry is the one found last.
BucketsAfterRemoval(library, id) ==
    [k \in {"watching", "watched", "wishlist"} |->
        IF findIndex(library[k], id) # 0
        THEN splice(library[k], findIndex(library[k], id))
        ELSE library[k]]

ExistingEntry(library, id) ==
    IF findIndex(library.wishlist, id) # 0
        THEN library.wishlist[findIndex(library.wishlist, id)]
    ELSE IF findIndex(library.watched, id) # 0
        THEN library.watched[findIndex(library.watched, id)]
    ELSE IF findIndex(library.watching, id) # 0
        THEN library.watching[findIndex(library.watching, id)]
    ELSE NullEntry

\* buckets[key] of insertEntry: the three lists, and the list created under the
\* key of a status that names none of them (library[undefined] = []).
BucketKey(status) == IF status \in Statuses THEN status ELSE "undefined"

\* insertEntry(library, entry) of add_movie (current version).
insertEntry(library, entry) ==
    LET fresh == IF entry.status \in Statuses THEN library.undefined ELSE <<>>
        removed == BucketsAfterRemoval(library, entry.id)
        buckets == [k \in {"watching", "watched", "wishlist", "undefined"} |->
                        IF k = "undefined" THEN fresh ELSE removed[k]]
        mergedEntry == mergeEntry(ExistingEntry(library, entry.id), entry)
        target == IF mergedEntry.status # "" THEN BucketKey(mergedEntry.status)
                  ELSE IF entry.status # "" THEN BucketKey(entry.status)
                  ELSE "watching"
    IN  [buckets EXCEPT ![target] = <<mergedEntry>> \o @]

\* insertEntry(library, entry) of the first add_movie: it merges in place, copies
\* no mediaType and inserts into buckets[entry.status].
insertEntryV1(library, entry) ==
    LET fresh == IF entry.status \in Statuses THEN library.undefined ELSE <<>>
        removed == BucketsAfterRemoval(library, entry.id)
        buckets == [k \in {"watching", "watched", "wishlist", "undefined"} |->
                        IF k = "undefined" THEN fresh ELSE removed[k]]
        existingEntry == ExistingEntry(library, entry.id)
        mergedDates == DedupeSortDesc(extractDates(existingEntry), extractDates(entry))
        filled ==
            [entry EXCEPT
                !.note = IF entry.note = 0 /\ existingEntry.note # 0
                         THEN existingEntry.note ELSE @,
                !.rating = IF entry.rating = -1 /\ existingEntry.rating # -1
                           THEN existingEntry.rating ELSE @,
                !.hasDates = IF mergedDates # <<>> THEN TRUE ELSE @,
                !.watchDates = IF mergedDates # <<>> THEN mergedDates ELSE @,
                !.status = IF entry.status = "" /\ existingEntry.status # ""
                           THEN existingEntry.status ELSE @]
        final == [(IF IsNull(existingEntry) THEN entry ELSE filled) EXCEPT !.watchDate = 0]
    IN  [buckets EXCEPT ![BucketKey(final.status)] = <<final>> \o @]

\* parseWatchDates(raw): the tokens of the split, normalised, nulls dropped,
\* deduplicated, newest first.
RECURSIVE NormaliseAll(_, _)
NormaliseAll(tokens, tz) ==
    IF tokens = <<>> THEN <<>>
    ELSE <<normaliseDate(Head(tokens), tz)>> \o NormaliseAll(Tail(tokens), tz)

parseWatchDates(tokens, tz) == DedupeSortDesc(NormaliseAll(tokens, tz), <<>>)

\* main of add_movie, from the answers to its prompts to the entry it inserts.
\* ratingInput: -1 is a blank answer, other values are Number(ratingInput).
AddMovieEntry(id, mediaType, status, tokens, note, ratingInput, tz) ==
    LET watchDates == IF status = "watched" THEN parseWatchDates(tokens, tz) ELSE <<>>
        asked == IF status = "watched" THEN ratingInput ELSE -1
        rating == IF asked >= 0 /\ asked <= 10 THEN asked ELSE -1
    IN  Entry(id, id, mediaType, status, watchDates # <<>>, watchDates, 0, rating, note)

\* ------------------------------------------------ sorting the watched list
\* primaryWatchDate(entry) of promote_movie and import_douban
primaryWatchDate(e) ==
    IF Truthy(e.watchDate) THEN e.watchDate
    ELSE IF e.hasDates /\ e.watchDates # <<>> THEN e.watchDates[1]
    ELSE 0

\* latestWatchDate(entry) of import_from_json
latestWatchDate(e) ==
    IF e.hasDates /\ e.watchDates # <<>> THEN e.watchDates[Len(e.watchDates)]
    ELSE e.watchDate

\* The comparator of sortByWatchDateDesc on the keys ka, kb: TRUE when a sorts
\* strictly before b (dated before undated, newer before older, then by title).
Before(a, b, ka, kb) ==
    IF Truthy(ka) /\ Truthy(kb) /\ ka # kb THEN ka > kb
    ELSE IF Truthy(ka) /\ ~Truthy(kb) THEN TRUE
    ELSE IF ~Truthy(ka) /\ Truthy(kb) THEN FALSE
    ELSE a.title < b.title

\* Array.prototype.sort is stable: insertion after every element that does not
\* sort strictly after the new one.
RECURSIVE InsertSorted(_, _, _)
InsertSorted(sorted, e, usePrimary) ==
    IF sorted = <<>> THEN <<e>>
    ELSE LET h == Head(sorted)
             ke == IF usePrimary THEN primaryWatchDate(e) ELSE latestWatchDate(e)
             kh == IF usePrimary THEN primaryWatchDate(h) ELSE latestWatchDate(h)
         IN  IF Before(e, h, ke, kh) THEN <<e>> \o sorted
             ELSE <<h>> \o InsertSorted(Tail(sorted), e, usePrimary)

RECURSIVE StableSort(_, _)
StableSort(list, usePrimary) ==
    IF list = <<>> THEN <<>>
    ELSE InsertSorted(StableSort(SubSeq(list, 1, Len(list) - 1), usePrimary),
                      list[Len(list)], usePrimary)

\* sortByWatchDateDesc(list) of promote_movie and of import_douban (with scraping)
sortByWatchDateDesc(list) == StableSort(list, TRUE)

\* sortByWatchDateDesc(list) of import_from_json (current)
sortByLatestWatchDateDesc(list) == StableSort(list, FALSE)

\* ----------------------------------------------------------- promote_movie
\* dedupeDates(existing, incoming)
dedupeDates(existing, incoming) == DedupeSortDesc(existing, incoming)

\* One pass of the loop that keeps the entry watched already holds for the id.
PromoteOneKeepingOld(acc, movie, defaultDate, sharedRating) ==
    LET dates == DedupeSortDesc(extractDates(movie), <<defaultDate>>)
        newEntry == [movie EXCEPT !.status = "watched", !.hasDates = TRUE,
                                  !.watchDates = dates,
                                  !.watchDate = IF dates = <<>> THEN 0 ELSE dates[1],
                                  !.rating = IF sharedRating # -1 THEN sharedRating ELSE @]
    IN  [watching |-> removeById(acc.watching, movie.id),
         watched |-> <<newEntry>> \o acc.watched]

\* One pass of the loop `for (const index of indexes)`: acc holds updatedWatching
\* and updatedWatched.
PromoteOne(acc, movie, defaultDate, sharedRating) ==
    LET dates == dedupeDates(extractDates(movie), <<defaultDate>>)
        newEntry == [movie EXCEPT !.status = "watched", !.hasDates = TRUE,
                                  !.watchDates = dates,
                                  !.watchDate = IF dates = <<>> THEN 0 ELSE dates[1],
                                  !.rating = IF sharedRating # -1 THEN sharedRating ELSE @]
    IN  [watching |-> removeById(acc.watching, movie.id),
         watched |-> <<newEntry>> \o removeById(acc.watched, movie.id)]

RECURSIVE PromoteLoop(_, _, _, _, _)
PromoteLoop(acc, watching, indexes, defaultDate, sharedRating) ==
    IF indexes = <<>> THEN acc
    ELSE PromoteLoop(PromoteOne(acc, watching[Head(indexes)], defaultDate, sharedRating),
                     watching, Tail(indexes), defaultDate, sharedRating)

\* main of promote_movie once valid indexes are chosen. dateInput is the answer
\* to the date prompt, today the current day.
PromoteDate(dateInput, today, tz) ==
    LET d == normaliseDate(IF dateInput.form = "empty"
                           THEN [form |-> "iso", day |-> today] ELSE dateInput, tz)
    IN  IF d = 0 THEN today ELSE d

PromoteRating(ratingInput) == IF ratingInput >= 0 /\ ratingInput <= 10 THEN ratingInput ELSE -1

promote(library, indexes, defaultDate, sharedRating) ==
    LET acc == PromoteLoop([watching |-> library.watching, watched |-> library.watched],
                           library.watching, indexes, defaultDate, sharedRating)
    IN  [library EXCEPT !.watching = acc.watching,
                        !.watched = sortByWatchDateDesc(acc.watched)]

\* ----------------------------------------------------------- import_douban
\* mergeDates(existing, incoming) of import_douban
mergeDatesDouban(existing, incoming) == DedupeSortDesc(existing, incoming)

\* An input item after catalog matching: a titled item without IMDb id, match the
\* catalog id chosen for it (0: no match, the item is skipped), mediaType the
\* match's media_type.
\* The first loop of main: one update per matched item, its dates merged with the
\* dates of the entry found in the library as loaded.
RECURSIVE DoubanUpdates(_, _, _)
DoubanUpdates(library, items, tz) ==
    IF items = <<>> THEN <<>>
    ELSE LET item == Head(items)
             watchDate == normaliseDate(item.watch_date, tz)
             found == SelectSeq(flattenLists(library), LAMBDA e : e.id = item.match)
             existingDates == IF found = <<>> THEN <<>> ELSE extractDates(found[1])
             update == [id |-> item.match, title |-> item.title,
                        mediaType |-> item.mediaType,
                        watchDates |-> mergeDatesDouban(existingDates,
                                         IF watchDate # 0 THEN <<watchDate>> ELSE <<>>)]
         IN  (IF item.match = 0 \/ item.title = 0 THEN <<>> ELSE <<update>>)
                 \o DoubanUpdates(library, Tail(items), tz)

\* The body of updates.forEach
DoubanApply(acc, entry) ==
    LET idx == findIndex(acc.watched, entry.id)
        existing == acc.watched[idx]
        mergedDates == mergeDatesDouban(extractDates(existing), entry.watchDates)
        updated == [existing EXCEPT
                       !.mediaType = IF entry.mediaType # "" THEN entry.mediaType
                                     ELSE IF @ # "" THEN @ ELSE "movie",
                       !.hasDates = TRUE, !.watchDates = mergedDates,
                       !.watchDate = IF mergedDates = <<>> THEN 0 ELSE mergedDates[1],
                       !.status = "watched"]
        created == Entry(entry.id, entry.title,
                         IF entry.mediaType # "" THEN entry.mediaType ELSE "movie",
                         "watched", TRUE, entry.watchDates,
                         IF entry.watchDates = <<>> THEN 0 ELSE entry.watchDates[1], -1, 0)
    IN  [watching |-> removeById(acc.watching, entry.id),
         wishlist |-> removeById(acc.wishlist, entry.id),
         watched |-> IF idx # 0 THEN [acc.watched EXCEPT ![idx] = updated]
                     ELSE <<created>> \o acc.watched]

RECURSIVE DoubanApplyAll(_, _)
DoubanApplyAll(acc, updates) ==
    IF updates = <<>> THEN acc
    ELSE DoubanApplyAll(DoubanApply(acc, Head(updates)), Tail(updates))

\* main of import_douban from the loaded library to the library it saves;
\* sorted: the version that orders watched with sortByWatchDateDesc.
importDouban(library, items, tz, sorted) ==
    LET updates == DoubanUpdates(library, items, tz)
        acc == DoubanApplyAll([watching |-> library.watching, watched |-> library.watched,
                               wishlist |-> library.wishlist], updates)
    IN  IF updates = <<>> THEN library
        ELSE [watching |-> acc.watching,
              watched |-> IF sorted THEN sortByWatchDateDesc(acc.watched) ELSE acc.watched,
              wishlist |-> acc.wishlist,
              undefined |-> <<>>]

\* -------------------------------------------------------- import_from_json
\* mergeDates(existing, incoming) of import_from_json (current): oldest first
mergeDatesJson(existing, incoming) == DedupeSortAsc(existing, incoming)

\* mergeDates(existing, incoming) of the first import_from_json: newest first
mergeDatesJsonV1(existing, incoming) == DedupeSortDesc(existing, incoming)

\* parseRating(raw) of import_from_json (current); -1 stands for null. Ratings
\* are whole numbers here, so toFixed(1) changes nothing.
parseRating(raw) ==
    IF raw = -1 THEN -1
    ELSE IF raw < 0 THEN 0
    ELSE IF raw <= 5 THEN raw * 2
    ELSE IF raw <= 10 THEN raw
    ELSE 10

\* The body of `for (const item of entries)`; current: the version with ascending
\* dates, parseRating scaling and the final sort.
JsonApply(acc, item, tz, current) ==
    LET watchDate == normaliseDate(item.watch_date, tz)
        combined == IF current
                    THEN mergeDatesJson(<<>>, IF watchDate # 0 THEN <<watchDate>> ELSE <<>>)
                    ELSE IF watchDate # 0 THEN <<watchDate>> ELSE <<>>
        rating == IF current THEN parseRating(item.my_rating) ELSE item.my_rating
        idx == findIndex(acc.watched, item.tmdb_id)
        existing == acc.watched[idx]
        mergedDates == IF current THEN mergeDatesJson(extractDates(existing), combined)
                       ELSE mergeDatesJsonV1(extractDates(existing), combined)
        updated == [existing EXCEPT
                       !.title = item.title, !.mediaType = "movie", !.status = "watched",
                       !.hasDates = TRUE, !.watchDates = mergedDates,
                       !.watchDate = IF mergedDates = <<>> THEN 0 ELSE mergedDates[1],
                       !.rating = IF rating # -1 THEN rating ELSE @,
                       !.note = IF item.note # 0 THEN item.note ELSE @]
        created == Entry(item.tmdb_id, item.title, "movie", "watched", TRUE, combined,
                         IF combined = <<>> THEN 0 ELSE combined[1], rating, item.note)
        skip == item.tmdb_id = 0 \/ item.title = 0
                    \/ (item.media_type # "" /\ item.media_type # "movie")
    IN  IF skip THEN acc
        ELSE [watching |-> removeById(acc.watching, item.tmdb_id),
              wishlist |-> removeById(acc.wishlist, item.tmdb_id),
              watched |-> IF idx # 0 THEN [acc.watched EXCEPT ![idx] = updated]
                          ELSE <<created>> \o acc.watched]

RECURSIVE JsonApplyAll(_, _, _, _)
JsonApplyAll(acc, items, tz, current) ==
    IF items = <<>> THEN acc
    ELSE JsonApplyAll(JsonApply(acc, Head(items), tz, current), Tail(items), tz, current)

\* main of import_from_json from the loaded library to the library it writes
importFromJson(library, items, tz, current) ==
    LET acc == JsonApplyAll([watching |-> library.watching, watched |-> library.watched,
                             wishlist |-> library.wishlist], items, tz, current)
    IN  IF items = <<>> THEN library
        ELSE [library EXCEPT
                 !.watching = acc.watching,
                 !.watched = IF current THEN sortByLatestWatchDateDesc(acc.watched)
                             ELSE acc.watched,
                 !.wishlist = acc.wishlist]

\* ------------------------------------------------------------ add-web-video
\* generateId(platform, title): `${platform}-${sanitizedTitle}-${Date.now()}`. Ids of
\* web videos are strings that no catalog id equals; they stand above MaxId, one
\* per (title, timestamp).
WebTitles == {1, 2}
generateId(title, now) == MaxId + 2 * now + title

\* main of add-web-video: the entry is put at the head of the list of its status;
\* the watch date is stored as typed.
addWebVideo(library, title, status, watchDate, rating, now) ==
    LET stored == RawString(watchDate)
        dated == status = "watched" /\ stored # 0
        entry == Entry(generateId(title, now), title, "web-video", status, dated,
                       IF dated THEN <<stored>> ELSE <<>>, IF dated THEN stored ELSE 0,
                       IF status = "watched" THEN rating ELSE -1, 0)
    IN  [library EXCEPT ![status] = <<entry>> \o @]

\* ------------------------------------------------- the library, run by run
\* The catalog: media_type of the search result with a given id.
MediaOf(id) == IF id % 2 = 1 THEN "movie" ELSE "tv"

Iso(d) == [form |-> "iso", day |-> d]
Junk == [form |-> "junk", day |-> 0]
Blank == [form |-> "empty", day |-> 0]
Slash(d) == [form |-> "slash", day |-> d]

\* Libraries the scripts start from: none yet, the README's example, and one with
\* a re-watched title back in "watching" and a legacy single-date entry.
InitLibraries ==
    { EmptyLibrary,
      [EmptyLibrary EXCEPT
          !.watching = <<Entry(1, 1, "movie", "watching", FALSE, <<>>, 0, -1, 1)>>,
          !.watched = <<Entry(2, 2, "movie", "", TRUE, <<1>>, 0, 8, 0)>>],
      [EmptyLibrary EXCEPT
          !.watching = <<Entry(1, 1, "tv", "watching", TRUE, <<1>>, 0, 6, 1)>>,
          !.wishlist = <<Entry(2, 2, "", "", FALSE, <<>>, MaxDay, -1, 0)>>] }

NoRun == [op |-> "none", pre |-> EmptyLibrary, watchedIds |-> {}, incoming |-> {}]

\* Answers to a date prompt, with the time zone of the run where it matters.
DateAnswers ==
    { [tokens |-> <<>>, tz |-> "utc"],
      [tokens |-> <<Iso(1)>>, tz |-> "utc"],
      [tokens |-> <<Iso(1), Iso(MaxDay)>>, tz |-> "utc"],
      [tokens |-> <<Junk, Iso(MaxDay)>>, tz |-> "utc"],
      [tokens |-> <<Slash(MaxDay)>>, tz |-> "utc"],
      [tokens |-> <<Slash(MaxDay)>>, tz |-> "east"] }

Record(op, watchedIds, incoming) ==
    [op |-> op, pre |-> lib, watchedIds |-> watchedIds, incoming |-> incoming]

Idle == mrg' = mrg /\ snap' = snap /\ outFile' = outFile /\ cred' = cred /\ job' = job

\* node scripts/add_movie.js (current version)
AddMovie ==
    /\ ops < MaxOps
    /\ \E id \in Ids, status \in Statuses, ans \in DateAnswers,
          note \in {0, 1}, ratingInput \in {-1, 8} :
          /\ status # "watched" => (ans.tokens = <<>> /\ ratingInput = -1)
          /\ LET entry == AddMovieEntry(id, MediaOf(id), status, ans.tokens, note,
                                        ratingInput, ans.tz)
             IN  /\ lib' = insertEntry(lib, entry)
                 /\ last' = Record("add_movie",
                                   IF status = "watched" THEN {id} ELSE {},
                                   {<<id, d>> : d \in SeqToSet(entry.watchDates)})
    /\ ops' = ops + 1
    /\ UNCHANGED clock
    /\ Idle

\* node scripts/add_movie.js (first version: movies only, no mediaType)
AddMovieV1 ==
    /\ ops < MaxOps
    /\ \E id \in Ids, status \in Statuses, ans \in DateAnswers,
          note \in {0, 1}, ratingInput \in {-1, 8} :
          /\ status # "watched" => (ans.tokens = <<>> /\ ratingInput = -1)
          /\ LET entry == AddMovieEntry(id, "", status, ans.tokens, note,
                                        ratingInput, ans.tz)
             IN  /\ lib' = insertEntryV1(lib, entry)
                 /\ last' = Record("add_movie",
                                   IF status = "watched" THEN {id} ELSE {},
                                   {<<id, d>> : d \in SeqToSet(entry.watchDates)})
    /\ ops' = ops + 1
    /\ UNCHANGED clock
    /\ Idle

\* Answers to promote_movie's date prompt, with the current day.
PromoteAnswers ==
    {[dateInput |-> Iso(d), today |-> MaxDay, tz |-> "utc"] : d \in Days}
        \cup {[dateInput |-> Slash(MaxDay), today |-> MaxDay, tz |-> z] : z \in TimeZones}
        \cup {[dateInput |-> Blank, today |-> d, tz |-> "utc"] : d \in Days}
        \cup {[dateInput |-> Junk, today |-> MaxDay, tz |-> "utc"]}

\* node scripts/promote_movie.js with at least one valid index chosen
Promote ==
    /\ ops < MaxOps
    /\ lib.watching # <<>>
    /\ \E i \in 1..Len(lib.watching), j \in 0..Len(lib.watching),
          ans \in PromoteAnswers, ratingInput \in {-1, 8} :
          LET indexes == IF j = 0 THEN <<i>> ELSE <<i, j>>
              defaultDate == PromoteDate(ans.dateInput, ans.today, ans.tz)
          IN  /\ lib' = promote(lib, indexes, defaultDate, PromoteRating(ratingInput))
              /\ last' = Record("promote",
                                {lib.watching[k].id : k \in SeqToSet(indexes)},
                                {<<lib.watching[k].id, defaultDate>> : k \in SeqToSet(indexes)})
    /\ ops' = ops + 1
    /\ UNCHANGED clock
    /\ Idle

\* Items of an import_douban input file, after matching.
DoubanItems ==
    {[title |-> id, watch_date |-> w, match |-> id, mediaType |-> MediaOf(id)] :
        id \in Ids, w \in {Iso(1), Iso(MaxDay), Junk}}
        \cup {[title |-> 1, watch_date |-> Iso(1), match |-> 0, mediaType |-> ""]}

ItemLists(S) == {<<a>> : a \in S} \cup {<<a, b>> : a \in S, b \in S}

DoubanIncoming(items) ==
    {<<items[k].match, normaliseDate(items[k].watch_date, "utc")>> : k \in 1..Len(items)}

ImportDoubanRun(sorted) ==
    /\ ops < MaxOps
    /\ \E items \in ItemLists(DoubanItems) :
          /\ lib' = importDouban(lib, items, "utc", sorted)
          /\ last' = Record("import_douban",
                            {items[k].match : k \in 1..Len(items)} \ {0},
                            {p \in DoubanIncoming(items) : p[1] # 0 /\ p[2] # 0})
    /\ ops' = ops + 1
    /\ UNCHANGED clock
    /\ Idle

\* node scripts/import_douban.js (IMDb lookup, watched left in insertion order)
ImportDouban == ImportDoubanRun(FALSE)

\* node scripts/import_douban.js (Douban scraping, watched sorted by date)
ImportDoubanSorted == ImportDoubanRun(TRUE)

\* Items of fromdouban.json
JsonItems ==
    {[tmdb_id |-> id, title |-> id, media_type |-> "movie", watch_date |-> w,
      my_rating |-> IF w = Junk THEN -1 ELSE 4, note |-> 0] :
        id \in Ids, w \in {Iso(1), Iso(MaxDay), Junk}}
        \cup {[tmdb_id |-> 0, title |-> 1, media_type |-> "movie", watch_date |-> Iso(1),
               my_rating |-> -1, note |-> 0],
              [tmdb_id |-> 1, title |-> 1, media_type |-> "tv", watch_date |-> Iso(1),
               my_rating |-> -1, note |-> 0]}

JsonImported(item) == item.tmdb_id # 0 /\ item.title # 0 /\ item.media_type \in {"", "movie"}

ImportFromJsonRun(current) ==
    /\ ops < MaxOps
    /\ \E items \in ItemLists(JsonItems) :
          LET taken == {k \in 1..Len(items) : JsonImported(items[k])}
          IN  /\ lib' = importFromJson(lib, items, "utc", current)
              /\ last' = Record("import_from_json",
                                {items[k].tmdb_id : k \in taken},
                                {p \in {<<items[k].tmdb_id,
                                          normaliseDate(items[k].watch_date, "utc")>> :
                                            k \in taken} : p[2] # 0})
    /\ ops' = ops + 1
    /\ UNCHANGED clock
    /\ Idle

\* node scripts/import_from_json.js (first version)
ImportFromJsonV1 == ImportFromJsonRun(FALSE)

\* node scripts/import_from_json.js (current version)
ImportFromJson == ImportFromJsonRun(TRUE)

\* node scripts/add-web-video.js; a run takes more than a millisecond, so the
\* next run reads a later Date.now().
AddWebVideo ==
    /\ ops < MaxOps
    /\ \E title \in WebTitles, status \in Statuses, watchDate \in RawDates,
          rating \in {-1, 8} :
          /\ status # "watched" => (watchDate = Blank /\ rating = -1)
          /\ lib' = addWebVideo(lib, title, status, watchDate, rating, clock)
          /\ last' = Record("add_web_video", {}, {})
    /\ clock' = clock + 1
    /\ ops' = ops + 1
    /\ Idle

Init ==
    /\ lib \in InitLibraries
    /\ last = NoRun
    /\ clock = 0
    /\ job = [pc |-> "off"]
    /\ ops = 0
    /\ mrg = [pc |-> "off"]
    /\ snap = [pc |-> "off"]
    /\ outFile = [exists |-> FALSE, items |-> <<>>]
    /\ cred = [pc |-> "off"]

Next ==
    \/ AddMovie
    \/ AddMovieV1
    \/ Promote
    \/ ImportDouban
    \/ ImportDoubanSorted
    \/ ImportFromJsonV1
    \/ ImportFromJson
    \/ AddWebVideo

Spec == Init /\ [][Next]_vars

\* ------------------------------------------------------------------ claims
AllLists(library) == library.watching \o library.watched \o library.wishlist \o library.undefined

Occurrences(library, id) ==
    Cardinality({i \in 1..Len(AllLists(library)) : AllLists(library)[i].id = id})

AllIds(library) == {AllLists(library)[i].id : i \in 1..Len(AllLists(library))}

\* C1: every id of the library occurs exactly once in the union of the lists.
C1_UniqueIds == \A id \in AllIds(lib) : Occurrences(lib, id) = 1

\* A state in which a second run has recorded as watched an id the library held.
C1_Witness ==
    /\ ops = MaxOps
    /\ \E id \in last.watchedIds : id \in AllIds(last.pre) /\ Occurrences(lib, id) = 1

DatesOf(library, id) ==
    UNION {{d \in SeqToSet(extractDates(AllLists(library)[i])) : Truthy(d)} :
              i \in {k \in 1..Len(AllLists(library)) : AllLists(library)[k].id = id}}

IncomingOf(id) == {p[2] : p \in {q \in last.incoming : q[1] = id}}

InList(list, id) == \E i \in 1..Len(list) : list[i].id = id

EntryIn(list, id) == list[findIndex(list, id)]

IsSortedNoDup(s) ==
    \/ \A i \in 1..(Len(s) - 1) : s[i] < s[i + 1]
    \/ \A i \in 1..(Len(s) - 1) : s[i] > s[i + 1]

\* What C2 asks of an id that was in watching and has been recorded as watched.
MovedWithAllDates(id) ==
    /\ InList(lib.watched, id)
    /\ ~InList(lib.watching, id)
    /\ ~InList(lib.wishlist, id)
    /\ Occurrences(lib, id) = 1
    /\ IsSortedNoDup(EntryIn(lib.watched, id).watchDates)
    /\ SeqToSet(EntryIn(lib.watched, id).watchDates)
           = DatesOf(last.pre, id) \cup IncomingOf(id)

\* C2: an entry of watching recorded as watched by any script is afterwards only in
\* watched, and its watchDates is the sorted, deduplicated union of the dates it
\* had and the incoming dates.
C2_WatchingToWatchedKeepsDates ==
    \A id \in last.watchedIds : InList(last.pre.watching, id) => MovedWithAllDates(id)

\* The same for the scripts other than import_from_json.
C2_ExceptImportFromJson ==
    last.op # "import_from_json" => C2_WatchingToWatchedKeepsDates

\* --------------------------------------------- the date merges, one by one
\* Date lists of a stored entry (hand-edited files included: unsorted, repeated
\* and empty values) and date lists a script passes as incoming (normalised,
\* no repeats).
RECURSIVE SeqsUpTo(_, _)
SeqsUpTo(S, n) ==
    IF n = 0 THEN {<<>>}
    ELSE SeqsUpTo(S, n - 1) \cup {Append(q, x) : q \in SeqsUpTo(S, n - 1), x \in S}

StoredDateLists == SeqsUpTo(0..MaxDay, MaxDay + 1)
IncomingDateLists == {q \in SeqsUpTo(Days, MaxDay) : Cardinality(SeqToSet(q)) = Len(q)}

MergeImpls == {"mergeEntry", "insertEntryV1", "dedupeDates", "mergeDatesDouban",
               "mergeDatesJsonV1", "mergeDatesJson"}

DatedEntry(dates) == Entry(1, 1, "movie", "watched", TRUE, dates, 0, -1, 0)

InitDates ==
    /\ mrg \in {[pc |-> "dates", impl |-> "none", existing |-> a, incoming |-> b,
                 out |-> <<>>] : a \in StoredDateLists, b \in IncomingDateLists}
    /\ lib = EmptyLibrary
    /\ last = NoRun
    /\ clock = 0
    /\ job = [pc |-> "off"]
    /\ ops = 0
    /\ snap = [pc |-> "off"]
    /\ outFile = [exists |-> FALSE, items |-> <<>>]
    /\ cred = [pc |-> "off"]

Merged(impl, out) ==
    /\ mrg.pc = "dates"
    /\ mrg' = [mrg EXCEPT !.pc = "merged", !.impl = impl, !.out = out]
    /\ UNCHANGED <<lib, last, clock, ops, snap, outFile, cred, job>>

\* add_movie: mergeEntry(existing, incoming).watchDates
CallMergeEntry ==
    Merged("mergeEntry",
           extractDates(mergeEntry(DatedEntry(mrg.existing),
               [DatedEntry(mrg.incoming) EXCEPT !.hasDates = mrg.incoming # <<>>])))

\* add_movie (first version): the dates of the entry insertEntry puts in the list
CallInsertEntryV1Dates ==
    Merged("insertEntryV1",
           extractDates(insertEntryV1(
               [EmptyLibrary EXCEPT !.watched = <<DatedEntry(mrg.existing)>>],
               [DatedEntry(mrg.incoming) EXCEPT !.hasDates = mrg.incoming # <<>>]).watched[1]))

\* promote_movie: dedupeDates(existingDates, [defaultDate])
CallDedupeDates == Merged("dedupeDates", dedupeDates(mrg.existing, mrg.incoming))

\* import_douban: mergeDates(extractDates(existing), entry.watchDates)
CallMergeDatesDouban ==
    Merged("mergeDatesDouban", mergeDatesDouban(mrg.existing, mrg.incoming))

\* import_from_json (first version): mergeDates(extractWatchDates(existing), ...)
CallMergeDatesJsonV1 ==
    Merged("mergeDatesJsonV1", mergeDatesJsonV1(mrg.existing, mrg.incoming))

\* import_from_json (current): mergeDates(extractWatchDates(existing), combinedDates)
CallMergeDatesJson == Merged("mergeDatesJson", mergeDatesJson(mrg.existing, mrg.incoming))

NextDates ==
    \/ CallMergeEntry
    \/ CallInsertEntryV1Dates
    \/ CallDedupeDates
    \/ CallMergeDatesDouban
    \/ CallMergeDatesJsonV1
    \/ CallMergeDatesJson

SpecDates == InitDates /\ [][NextDates]_vars

NonEmptyDates(q) == {d \in SeqToSet(q) : Truthy(d)}

IsUnionOnce(out, a, b) ==
    /\ SeqToSet(out) = NonEmptyDates(a) \cup NonEmptyDates(b)
    /\ Cardinality(SeqToSet(out)) = Len(out)
    /\ \A i \in 1..Len(out) : Truthy(out[i])

IsDescending(q) == \A i \in 1..(Len(q) - 1) : q[i] > q[i + 1]
IsAscending(q) == \A i \in 1..(Len(q) - 1) : q[i] < q[i + 1]

\* C3 as stated: every merge implementation returns each non-empty date of either
\* side exactly once, no empty value, newest first.
C3_EveryMergeDescending ==
    mrg.pc = "merged" =>
        /\ IsUnionOnce(mrg.out, mrg.existing, mrg.incoming)
        /\ IsDescending(mrg.out)

\* C3 amended: every merge implementation returns each non-empty date of either
\* side exactly once and no empty value; the result is newest first everywhere but
\* in the current import_from_json, whose mergeDates returns it oldest first.
C3_MergeUnionSorted ==
    mrg.pc = "merged" =>
        /\ IsUnionOnce(mrg.out, mrg.existing, mrg.incoming)
        /\ mrg.impl # "mergeDatesJson" => IsDescending(mrg.out)
        /\ mrg.impl = "mergeDatesJson" => IsAscending(mrg.out)

\* A merge of a stored list with an empty and a repeated value and an incoming
\* list with a new date, in the ascending implementation and in a descending one.
C3_Witness ==
    /\ mrg.pc = "merged"
    /\ mrg.impl = "mergeDatesJson"
    /\ mrg.existing = <<MaxDay, 0, MaxDay>>
    /\ mrg.incoming = <<1>>
    /\ mrg.out = <<1, MaxDay>>

\* --------------------------------- an incoming entry meets an existing one
\* The stored entry of id 1 (or none), the list that holds it, and the entry a
\* script brings for the same id.
StoredPlaces == {<<"watching", "watching">>, <<"watched", "watched">>,
                 <<"watched", "">>, <<"wishlist", "">>}

StoredEntries ==
    {[list |-> pl[1], entry |-> Entry(1, 1, mt, pl[2], dt # <<>>, dt, 0, r, n)] :
        pl \in StoredPlaces, mt \in {"", "tv"}, dt \in {<<>>, <<1>>, <<1, MaxDay>>},
        r \in {-1, 7}, n \in {0, 1}}
        \cup {[list |-> "none", entry |-> NullEntry]}

IncomingEntries ==
    {Entry(1, 2, mt, st, dt # <<>>, dt, 0, r, n) :
        mt \in {"", "movie"}, st \in {"", "watched", "wishlist"},
        dt \in {<<>>, <<MaxDay>>}, r \in {-1, 9}, n \in {0, 2}}

LibraryHolding(stored) ==
    IF stored.list = "none" THEN EmptyLibrary
    ELSE [EmptyLibrary EXCEPT ![stored.list] = <<stored.entry>>]

InitMerge ==
    /\ \E stored \in StoredEntries, incoming \in IncomingEntries :
          /\ mrg = [pc |-> "entries", impl |-> "none", existing |-> stored.entry,
                    incoming |-> incoming, out |-> <<>>]
          /\ lib = LibraryHolding(stored)
    /\ last = NoRun
    /\ clock = 0
    /\ job = [pc |-> "off"]
    /\ ops = 0
    /\ snap = [pc |-> "off"]
    /\ outFile = [exists |-> FALSE, items |-> <<>>]
    /\ cred = [pc |-> "off"]

Inserted(impl, library) ==
    /\ mrg.pc = "entries"
    /\ mrg' = [mrg EXCEPT !.pc = "inserted", !.impl = impl]
    /\ lib' = library
    /\ UNCHANGED <<last, clock, ops, snap, outFile, cred, job>>

\* add_movie (current): insertEntry(library, entry)
CallInsertEntry == Inserted("insertEntry", insertEntry(lib, mrg.incoming))

\* add_movie (first version): insertEntry(library, entry)
CallInsertEntryV1 == Inserted("insertEntryV1", insertEntryV1(lib, mrg.incoming))

\* The item of fromdouban.json that carries the incoming entry's fields.
JsonItemOf(e) ==
    [tmdb_id |-> e.id, title |-> e.title, media_type |-> e.mediaType,
     watch_date |-> IF e.watchDates = <<>> THEN Blank ELSE Iso(e.watchDates[1]),
     my_rating |-> e.rating, note |-> e.note]

CallImportFromJsonRun(current) ==
    /\ mrg.incoming.status = "watched"
    /\ Inserted(IF current THEN "importFromJson" ELSE "importFromJsonV1",
                importFromJson(lib, <<JsonItemOf(mrg.incoming)>>, "utc", current))

\* import_from_json (first version) on a file with the one item
CallImportFromJsonV1 == CallImportFromJsonRun(FALSE)

\* import_from_json (current) on a file with the one item
CallImportFromJson == CallImportFromJsonRun(TRUE)

NextMerge ==
    \/ CallInsertEntry
    \/ CallInsertEntryV1
    \/ CallImportFromJsonV1
    \/ CallImportFromJson

SpecMerge == InitMerge /\ [][NextMerge]_vars

\* The lists of the written library, the one under the key "undefined" included.
ListsHolding(id) ==
    {k \in {"watching", "watched", "wishlist", "undefined"} : InList(lib[k], id)}

ResultEntry == EntryIn(lib[CHOOSE k \in ListsHolding(1) : TRUE], 1)

Preferred(incoming, existing, absent) == IF incoming # absent THEN incoming ELSE existing

\* C4: after an entry is merged with an existing entry of the same id, each of
\* note, rating and mediaType is the incoming value if the incoming entry supplies
\* one, otherwise the existing entry's value.
C4_ScalarsPreferIncoming ==
    (mrg.pc = "inserted" /\ ~IsNull(mrg.existing)) =>
        /\ ListsHolding(1) # {}
        /\ ResultEntry.note = Preferred(mrg.incoming.note, mrg.existing.note, 0)
        /\ ResultEntry.rating = Preferred(mrg.incoming.rating, mrg.existing.rating, -1)
        /\ ResultEntry.mediaType
               = Preferred(mrg.incoming.mediaType, mrg.existing.mediaType, "")

\* The same for insertEntry of the current add_movie alone.
C4_CurrentAddMovieOnly ==
    (mrg.pc = "inserted" /\ ~IsNull(mrg.existing) /\ mrg.impl = "insertEntry") =>
        /\ ListsHolding(1) # {}
        /\ ResultEntry.note = Preferred(mrg.incoming.note, mrg.existing.note, 0)
        /\ ResultEntry.rating = Preferred(mrg.incoming.rating, mrg.existing.rating, -1)
        /\ ResultEntry.mediaType
               = Preferred(mrg.incoming.mediaType, mrg.existing.mediaType, "")

\* C5: when insertEntry receives an entry with no status, the result keeps the
\* existing entry's status and goes into the list of that status; when neither
\* has a status the result goes into watching.
C5_StatusFallsBack ==
    (mrg.pc = "inserted" /\ mrg.impl \in {"insertEntry", "insertEntryV1"}
        /\ mrg.incoming.status = "") =>
        IF mrg.existing.status # ""
        THEN ListsHolding(1) = {mrg.existing.status}
                 /\ ResultEntry.status = mrg.existing.status
        ELSE ListsHolding(1) = {"watching"}

\* The same for insertEntry of the current add_movie alone.
C5_CurrentAddMovieOnly ==
    (mrg.pc = "inserted" /\ mrg.impl = "insertEntry" /\ mrg.incoming.status = "") =>
        IF mrg.existing.status # ""
        THEN ListsHolding(1) = {mrg.existing.status}
                 /\ ResultEntry.status = mrg.existing.status
        ELSE ListsHolding(1) = {"watching"}

\* Every entry of the written library, the list under "undefined" included.
StoredEntriesOf(library) == SeqToSet(AllLists(library))

HasOnlyIsoDates(e) ==
    /\ \A i \in 1..Len(e.watchDates) : IsIsoDate(e.watchDates[i])
    /\ e.watchDate # 0 => IsIsoDate(e.watchDate)

\* C6: every date stored by add_movie, promote_movie, import_douban,
\* import_from_json or add-web-video is a parsed, normalised YYYY-MM-DD date;
\* an input that does not parse is stored as no date.
C6_StoredDatesNormalised == \A e \in StoredEntriesOf(lib) : HasOnlyIsoDates(e)

\* The same for every entry but the web videos.
C6_ExceptAddWebVideo ==
    \A e \in StoredEntriesOf(lib) : e.mediaType # "web-video" => HasOnlyIsoDates(e)

\* ------------------------------------------------------ the snapshot builder
\* normaliseWatchDates(...sources): the sources in one list, empty values out,
\* deduplicated, newest first.
normaliseWatchDates(sources) == DedupeSortDesc(sources, <<>>)

\* upsert(entry, defaultStatus) on the Map `deduped`, kept as the list of its
\* values in insertion order: a known id keeps its place.
upsert(deduped, entry, defaultStatus) ==
    LET idx == findIndex(deduped, entry.id)
        existing == IF idx # 0 THEN deduped[idx] ELSE NullEntry
        watchDates == normaliseWatchDates(
                          existing.watchDates
                              \o (IF existing.watchDate # 0 THEN <<existing.watchDate>> ELSE <<>>)
                              \o (IF entry.hasDates THEN entry.watchDates ELSE <<>>)
                              \o (IF entry.watchDate # 0 THEN <<entry.watchDate>> ELSE <<>>))
        value == Entry(entry.id,
                       IF entry.title # 0 THEN entry.title ELSE existing.title,
                       IF entry.mediaType # "" THEN entry.mediaType
                       ELSE IF existing.mediaType # "" THEN existing.mediaType ELSE "movie",
                       IF entry.status # "" THEN entry.status
                       ELSE IF existing.status # "" THEN existing.status ELSE defaultStatus,
                       TRUE, watchDates,
                       IF watchDates # <<>> THEN watchDates[1] ELSE 0,
                       IF entry.rating # -1 THEN entry.rating ELSE existing.rating,
                       IF entry.note # 0 THEN entry.note ELSE existing.note)
    IN  IF idx # 0 THEN [deduped EXCEPT ![idx] = value] ELSE Append(deduped, value)

RECURSIVE UpsertAll(_, _, _)
UpsertAll(deduped, list, defaultStatus) ==
    IF list = <<>> THEN deduped
    ELSE UpsertAll(upsert(deduped, Head(list), defaultStatus), Tail(list), defaultStatus)

\* loadLibrary() of the snapshot builder: watching, watched, wishlist in turn
loadLibrary(parsed) ==
    UpsertAll(UpsertAll(UpsertAll(<<>>, parsed.watching, "watching"),
                        parsed.watched, "watched"),
              parsed.wishlist, "wishlist")

\* The statuses the catalog answers with, and response.ok.
ResponseStatuses == {200, 404, 500}
ResponseOk(status) == status >= 200 /\ status <= 299

\* A fetchDetails that throws on every response that is not ok, 404 included.
fetchDetailsThrowsOnNotFound(status) == IF ~ResponseOk(status) THEN "throw" ELSE "json"

\* A fetchDetails that warns and returns null on every response that is not ok.
fetchDetailsSkipsFailures(status) == IF ~ResponseOk(status) THEN "null" ELSE "json"

\* fetchDetails: what the call ends with for a response status
fetchDetails(status) ==
    IF status = 404 THEN "null"
    ELSE IF ~ResponseOk(status) THEN "throw"
    ELSE "json"

\* [...watchDates].sort((a, b) => b.localeCompare(a))
RECURSIVE SortDatesDesc(_)
SortDatesDesc(q) ==
    IF q = <<>> THEN <<>>
    ELSE LET m == Max(SeqToSet(q))
         IN  SelectSeq(q, LAMBDA d : d = m) \o SortDatesDesc(SelectSeq(q, LAMBDA d : d # m))

\* The object buildSnapshot pushes for an entry whose details arrived; tmdb
\* stands for buildTmdbPayload(details, mediaType).
SnapshotItem(entry) ==
    LET mediaType == IF entry.mediaType # "" THEN entry.mediaType ELSE "movie"
        orderedWatchDates == SortDatesDesc(extractDates(entry))
    IN  [id |-> entry.id,
         title |-> IF entry.title # 0 THEN entry.title ELSE entry.id,
         mediaType |-> mediaType,
         status |-> entry.status,
         watchDates |-> orderedWatchDates,
         watchDate |-> IF orderedWatchDates # <<>> THEN orderedWatchDates[1] ELSE 0,
         rating |-> entry.rating,
         note |-> entry.note,
         tmdb |-> <<mediaType, entry.id>>]

\* The file with items removed from the previous file and the new ones after it.
writeFileKeepingOld(file, items) == [exists |-> TRUE, items |-> file.items \o items]

\* writeFile(OUTPUT_PATH, payload): the file is the payload
writeFile(file, items) == [exists |-> TRUE, items |-> items]

\* The entry the library file holds for an id in a list; a watched entry carries
\* the inCinema flag that import_from_json and the README give it.
FileEntry(id, list) ==
    IF list = "watching" THEN Entry(id, id, MediaOf(id), "watching", FALSE, <<>>, 0, -1, 0)
    ELSE IF list = "watched"
         THEN [id |-> id, title |-> id, mediaType |-> "", status |-> "", hasDates |-> TRUE,
               watchDates |-> <<1, MaxDay>>, watchDate |-> 0, rating |-> 8, note |-> 1,
               inCinema |-> (id % 2 = 1)]
    ELSE Entry(id, 0, MediaOf(id), "", FALSE, <<>>, 0, -1, 0)

\* For each id: the lists of the library file that hold it (a hand-edited file may
\* hold an id in two lists).
Placements == {{}, {"watching"}, {"watched"}, {"wishlist"}, {"watching", "watched"}}

RECURSIVE EntriesOf(_, _, _)
EntriesOf(place, list, id) ==
    IF id > MaxId THEN <<>>
    ELSE (IF list \in place[id] THEN <<FileEntry(id, list)>> ELSE <<>>)
             \o EntriesOf(place, list, id + 1)

SnapLibraries ==
    {[watching |-> EntriesOf(place, "watching", 1),
      watched |-> EntriesOf(place, "watched", 1),
      wishlist |-> EntriesOf(place, "wishlist", 1),
      undefined |-> <<>>] : place \in [Ids -> Placements]}

\* data/movies.json before the run: absent, or the items of an earlier run.
OldSnapshots ==
    {[exists |-> FALSE, items |-> <<>>],
     [exists |-> TRUE, items |-> <<>>],
     [exists |-> TRUE,
      items |-> <<SnapshotItem(FileEntry(MaxId + 1, "watched")),
                  SnapshotItem(FileEntry(1, "wishlist"))>>]}

InitSnap ==
    /\ lib \in SnapLibraries
    /\ outFile \in OldSnapshots
    /\ \E responses \in [Ids -> ResponseStatuses] :
          snap = [pc |-> "start", old |-> outFile, responses |-> responses,
                  entries |-> <<>>, index |-> 1, enriched |-> <<>>, warned |-> {},
                  emptyWarning |-> FALSE, exitCode |-> 0, wrote |-> FALSE]
    /\ last = NoRun
    /\ clock = 0
    /\ job = [pc |-> "off"]
    /\ ops = 0
    /\ mrg = [pc |-> "off"]
    /\ cred = [pc |-> "off"]

SnapFrame == UNCHANGED <<lib, last, clock, ops, mrg, cred, job>>

\* main: entries = await loadLibrary(), and the warning for an empty library
SnapLoad ==
    /\ snap.pc = "start"
    /\ snap' = [snap EXCEPT !.pc = "fetch", !.entries = loadLibrary(lib),
                            !.emptyWarning = loadLibrary(lib) = <<>>]
    /\ UNCHANGED outFile
    /\ SnapFrame

CurrentEntry == snap.entries[snap.index]
CurrentOutcome == fetchDetails(snap.responses[CurrentEntry.id])

\* buildSnapshot: one turn of the loop whose fetchDetails returns the details
SnapFetchOk ==
    /\ snap.pc = "fetch" /\ snap.index <= Len(snap.entries)
    /\ CurrentOutcome = "json"
    /\ snap' = [snap EXCEPT !.enriched = Append(@, SnapshotItem(CurrentEntry)),
                            !.index = @ + 1]
    /\ UNCHANGED outFile
    /\ SnapFrame

\* buildSnapshot: one turn of the loop whose fetchDetails warns and returns null
SnapFetchNotFound ==
    /\ snap.pc = "fetch" /\ snap.index <= Len(snap.entries)
    /\ CurrentOutcome = "null"
    /\ snap' = [snap EXCEPT !.warned = @ \cup {CurrentEntry.id}, !.index = @ + 1]
    /\ UNCHANGED outFile
    /\ SnapFrame

\* fetchDetails throws; the catch of main reports and sets process.exitCode = 1
SnapFetchFail ==
    /\ snap.pc = "fetch" /\ snap.index <= Len(snap.entries)
    /\ CurrentOutcome = "throw"
    /\ snap' = [snap EXCEPT !.pc = "done", !.exitCode = 1]
    /\ UNCHANGED outFile
    /\ SnapFrame

\* main after buildSnapshot returned: the payload is written
SnapWrite ==
    /\ snap.pc = "fetch" /\ snap.index > Len(snap.entries)
    /\ outFile' = writeFile(outFile, snap.enriched)
    /\ snap' = [snap EXCEPT !.pc = "done", !.wrote = TRUE]
    /\ SnapFrame

NextSnap ==
    \/ SnapLoad
    \/ SnapFetchOk
    \/ SnapFetchNotFound
    \/ SnapFetchFail
    \/ SnapWrite

SpecSnap == InitSnap /\ [][NextSnap]_vars

LibraryIds == {AllLists(lib)[i].id : i \in 1..Len(AllLists(lib))}
HasDistinctIds == Cardinality(LibraryIds) = Len(AllLists(lib))
IdsAnswered(statuses) == {id \in LibraryIds : snap.responses[id] \in statuses}
ItemIds(items) == {items[i].id : i \in 1..Len(items)}
ItemsWithId(items, id) == {i \in 1..Len(items) : items[i].id = id}

\* C7: with N entries of distinct ids, one of which the catalog answers with 404
\* and all others with success, the run writes exactly N-1 items, none for the 404
\* id and one for each other entry, warns, and leaves the exit code at zero.
C7_NotFoundSkipsOneEntry ==
    (snap.pc = "done" /\ HasDistinctIds
        /\ Cardinality(IdsAnswered({404})) = 1
        /\ IdsAnswered({404}) \cup IdsAnswered({200}) = LibraryIds) =>
        /\ snap.wrote /\ outFile.exists
        /\ Len(outFile.items) = Len(AllLists(lib)) - 1
        /\ \A id \in IdsAnswered({404}) : ItemsWithId(outFile.items, id) = {}
        /\ \A id \in IdsAnswered({200}) : Cardinality(ItemsWithId(outFile.items, id)) = 1
        /\ snap.warned = IdsAnswered({404})
        /\ snap.exitCode = 0

\* A finished run over MaxId entries, the first of them answered with 404.
C7_Witness ==
    /\ snap.pc = "done" /\ HasDistinctIds
    /\ Len(AllLists(lib)) = MaxId
    /\ IdsAnswered({404}) = {1}
    /\ IdsAnswered({200}) = LibraryIds \ {1}
    /\ Len(outFile.items) = MaxId - 1

\* C8: if the catalog answers any entry with a failure other than 404, the run
\* never writes the snapshot file, which stays as it was, and ends with a
\* non-zero exit code.
C8_FailureWritesNothing ==
    (IdsAnswered({s \in ResponseStatuses : ~ResponseOk(s) /\ s # 404}) # {}) =>
        /\ outFile = snap.old
        /\ ~snap.wrote
        /\ snap.pc = "done" => snap.exitCode # 0

\* A finished run whose last entry failed after an earlier one succeeded, with
\* a snapshot of an earlier run on disk.
C8_Witness ==
    /\ snap.pc = "done"
    /\ snap.enriched # <<>>
    /\ snap.responses[snap.entries[Len(snap.entries)].id] = 500
    /\ snap.index = Len(snap.entries)
    /\ snap.old.exists /\ snap.old.items # <<>>
    /\ snap.exitCode = 1

ExpectedItems ==
    LET answered == SelectSeq(loadLibrary(lib), LAMBDA e : snap.responses[e.id] = 200)
    IN  [i \in 1..Len(answered) |-> SnapshotItem(answered[i])]

\* C9: the items a successful run writes are the items built from the library
\* entries the catalog answered with success, one per id in library order,
\* whatever the file held before; no other item of the previous file survives.
C9_FullReplace ==
    (snap.pc = "done" /\ snap.wrote) =>
        /\ outFile.items = ExpectedItems
        /\ ItemIds(outFile.items) = IdsAnswered({200})
        /\ Len(outFile.items) = Cardinality(IdsAnswered({200}))
        /\ \A i \in 1..Len(outFile.items) :
              \E k \in 1..Len(snap.entries) :
                  outFile.items[i] = SnapshotItem(snap.entries[k])

\* A successful run over a previous file whose items are not in the new file.
C9_Witness ==
    /\ snap.pc = "done" /\ snap.wrote
    /\ snap.old.items # <<>>
    /\ outFile.items # <<>>
    /\ \A i \in 1..Len(snap.old.items) : snap.old.items[i].id \notin ItemIds(outFile.items)

\* ------------------------------------------------ credentials of the scripts
Credentials == {"TMDB_API_KEY", "TMDB_SESSION_ID", "TMDB_ACCOUNT_ID", "TMDB_V4_ACCESS_TOKEN"}

Scripts == {"fetch_movies", "fetch_list", "fetch_rated", "fetch_rated_v4",
            "fetch_rated_v4_profile", "add_movie", "import_douban", "export_douban_json"}

\* Statements: a credential check with what it does on failure (process.exit(1),
\* exitCode = 1 and return, or a throw caught by main), or a piece of I/O with
\* the credentials it sends.
checkExit(c) == [op |-> "checkExit", uses |-> {c}]
checkReturn(c) == [op |-> "checkReturn", uses |-> {c}]
checkThrow(c) == [op |-> "checkThrow", uses |-> {c}]
fetch(cs) == [op |-> "fetch", uses |-> cs]
readFile == [op |-> "readFile", uses |-> {}]
writeFileStatement == [op |-> "writeFile", uses |-> {}]

\* fetchRatedMoviesV3(): its three checks and the request of a page
fetchRatedMoviesV3 ==
    <<checkThrow("TMDB_API_KEY"), checkThrow("TMDB_SESSION_ID"),
      checkThrow("TMDB_ACCOUNT_ID"),
      fetch({"TMDB_API_KEY", "TMDB_SESSION_ID", "TMDB_ACCOUNT_ID"})>>

\* The checks and the I/O of a script, in the order the script runs them with
\* the environment env.
Program(script, env) ==
    CASE script = "fetch_movies" ->
            <<checkExit("TMDB_API_KEY"), readFile, fetch({"TMDB_API_KEY"}),
              writeFileStatement>>
      [] script = "fetch_list" ->
            <<checkReturn("TMDB_API_KEY"), fetch({"TMDB_API_KEY"}), writeFileStatement>>
      [] script = "fetch_rated" -> fetchRatedMoviesV3 \o <<writeFileStatement>>
      [] script = "fetch_rated_v4" ->
            <<checkThrow("TMDB_ACCOUNT_ID")>>
                \o (IF "TMDB_V4_ACCESS_TOKEN" \in env
                    THEN <<fetch({"TMDB_ACCOUNT_ID", "TMDB_V4_ACCESS_TOKEN"})>>
                    ELSE fetchRatedMoviesV3)
                \o <<writeFileStatement>>
      [] script = "fetch_rated_v4_profile" ->
            (IF "TMDB_V4_ACCESS_TOKEN" \in env
             THEN <<fetch({"TMDB_V4_ACCESS_TOKEN"}), fetch({"TMDB_V4_ACCESS_TOKEN"})>>
             ELSE <<checkThrow("TMDB_ACCOUNT_ID")>> \o fetchRatedMoviesV3)
                \o <<writeFileStatement>>
      [] script = "add_movie" ->
            <<checkExit("TMDB_API_KEY"), fetch({"TMDB_API_KEY"}), readFile,
              writeFileStatement>>
      [] script = "import_douban" ->
            <<checkExit("TMDB_API_KEY"), readFile, readFile, fetch({"TMDB_API_KEY"}),
              writeFileStatement>>
      [] OTHER ->
            <<checkExit("TMDB_API_KEY"), readFile, fetch({"TMDB_API_KEY"}),
              writeFileStatement>>

\* A check that lets every environment pass.
CheckAlwaysPasses(statement, env) == FALSE

\* if (!TMDB_...)
CheckFails(statement, env) == ~(statement.uses \subseteq env)

InitCred ==
    /\ \E script \in Scripts, env \in SUBSET Credentials :
          cred = [pc |-> "run", at |-> 1, script |-> script, env |-> env, io |-> <<>>,
                  message |-> FALSE, exitCode |-> 0]
    /\ lib = EmptyLibrary
    /\ last = NoRun
    /\ clock = 0
    /\ job = [pc |-> "off"]
    /\ ops = 0
    /\ mrg = [pc |-> "off"]
    /\ snap = [pc |-> "off"]
    /\ outFile = [exists |-> FALSE, items |-> <<>>]

CredFrame == UNCHANGED <<lib, last, clock, ops, mrg, snap, outFile, job>>

CredRunning == cred.pc = "run"
CredProgram == Program(cred.script, cred.env)
CredStatement == CredProgram[cred.at]
CredAt(opsOfStatement) ==
    /\ CredRunning
    /\ cred.at <= Len(CredProgram)
    /\ CredStatement.op \in opsOfStatement

\* a check finds its credential
CredCheckPasses ==
    /\ CredAt({"checkExit", "checkReturn", "checkThrow"})
    /\ ~CheckFails(CredStatement, cred.env)
    /\ cred' = [cred EXCEPT !.at = @ + 1]
    /\ CredFrame

\* console.error(...) and process.exit(1), or process.exitCode = 1 and return,
\* or a throw that the catch of main reports before setting process.exitCode = 1
CredCheckFails ==
    /\ CredAt({"checkExit", "checkReturn", "checkThrow"})
    /\ CheckFails(CredStatement, cred.env)
    /\ cred' = [cred EXCEPT !.pc = "done", !.message = TRUE, !.exitCode = 1]
    /\ CredFrame

\* a request, a file read or a file write
CredIo ==
    /\ CredAt({"fetch", "readFile", "writeFile"})
    /\ cred' = [cred EXCEPT !.at = @ + 1, !.io = Append(@, CredStatement.op)]
    /\ CredFrame

\* the script ran to its end
CredEnd ==
    /\ CredRunning
    /\ cred.at > Len(CredProgram)
    /\ cred' = [cred EXCEPT !.pc = "done"]
    /\ CredFrame

NextCred ==
    \/ CredCheckPasses
    \/ CredCheckFails
    \/ CredIo
    \/ CredEnd

SpecCred == InitCred /\ [][NextCred]_vars

\* The credentials the requests of the run send.
RequiredCredentials ==
    UNION {CredProgram[i].uses : i \in {k \in 1..Len(CredProgram) : CredProgram[k].op = "fetch"}}

\* C10: when a credential the script requires is missing, no file is read or
\* written and no request is sent, and the script ends with a message and a
\* non-zero exit status.
C10_MissingCredentialFailsBeforeIo ==
    (cred.pc # "off" /\ ~(RequiredCredentials \subseteq cred.env)) =>
        /\ cred.io = <<>>
        /\ cred.pc = "done" => (cred.message /\ cred.exitCode # 0)

\* The rated-movies fetcher ended on the missing session id after the check of
\* the API key passed.
C10_Witness ==
    /\ cred.pc = "done"
    /\ cred.script = "fetch_rated"
    /\ cred.env = {"TMDB_API_KEY", "TMDB_ACCOUNT_ID"}
    /\ cred.message /\ cred.exitCode = 1 /\ cred.io = <<>>

\* ------------------------------------- batch runs: resolving catalog ids
\* The catalog: two works with the same title, a film the catalog knows under
\* IMDb id 1 and a more popular series without IMDb id, and a film that alone
\* has its title. Titles, years and IMDb
\* ids are naturals, 0 standing for the empty string.
Works ==
    <<[id |-> 1, media_type |-> "movie", title |-> 1, year |-> 1, popularity |-> 5,
       imdb_id |-> 1],
      [id |-> 2, media_type |-> "tv", title |-> 1, year |-> 2, popularity |-> 9,
       imdb_id |-> 0],
      [id |-> 3, media_type |-> "movie", title |-> 3, year |-> 1, popularity |-> 1,
       imdb_id |-> 0]>>

NoWork == [id |-> 0, media_type |-> "", title |-> 0, year |-> 0, popularity |-> 0,
           imdb_id |-> 0]

\* searchMovies(title, year) / searchTvShows(title, year): data.results
searchMovies(title, year) ==
    SelectSeq(Works, LAMBDA w : w.media_type = "movie" /\ w.title = title
                                   /\ (year # 0 => w.year = year))

searchTvShows(title, year) ==
    SelectSeq(Works, LAMBDA w : w.media_type = "tv" /\ w.title = title
                                   /\ (year # 0 => w.year = year))

\* results.sort((a, b) => (b.popularity || 0) - (a.popularity || 0))
RECURSIVE SortByPopularity(_)
SortByPopularity(results) ==
    IF results = <<>> THEN <<>>
    ELSE LET top == Max({results[i].popularity : i \in 1..Len(results)})
         IN  SelectSeq(results, LAMBDA w : w.popularity = top)
                 \o SortByPopularity(SelectSeq(results, LAMBDA w : w.popularity # top))

\* title.replace(/\s+/g, '').toLowerCase(): a title of TitleVariant and above is
\* the title below it written with other spacing and capitals.
TitleVariant == 10
normaliseTitle(title) == title % TitleVariant

\* releaseYearFromResult(result): the first four characters of release_date (of
\* first_air_date for a series), 0 for '' when the result has no date.
releaseYearFromResult(result) == result.year

\* pickBestMatch without the exact-title step: the most popular of the year.
pickMostPopular(results, title, year) ==
    LET byYear == IF year # 0
                  THEN SelectSeq(results, LAMBDA w : releaseYearFromResult(w) = year)
                  ELSE results
    IN  IF byYear = <<>> THEN NoWork ELSE SortByPopularity(byYear)[1]

\* pickBestMatch(results, title, year); NoWork for null / undefined
pickBestMatch(results, title, year) ==
    LET byYear == IF year # 0
                  THEN SelectSeq(results, LAMBDA w : releaseYearFromResult(w) = year)
                  ELSE results
        exactMatches == SelectSeq(byYear, LAMBDA w :
                            normaliseTitle(w.title) = normaliseTitle(title))
        filtered == IF Len(exactMatches) > 1 THEN exactMatches ELSE byYear
    IN  IF results = <<>> THEN NoWork
        ELSE IF Len(byYear) = 1 THEN byYear[1]
        ELSE IF Len(exactMatches) = 1 THEN exactMatches[1]
        ELSE IF filtered = <<>> THEN NoWork
        ELSE SortByPopularity(filtered)[1]

\* findByImdb(imdbId): the first of movie_results, else the first of tv_results
findByImdb(imdbId) ==
    LET movies == SelectSeq(Works, LAMBDA w : w.media_type = "movie" /\ w.imdb_id = imdbId)
        shows == SelectSeq(Works, LAMBDA w : w.media_type = "tv" /\ w.imdb_id = imdbId)
    IN  IF imdbId = 0 THEN NoWork
        ELSE IF movies # <<>> THEN movies[1]
        ELSE IF shows # <<>> THEN shows[1]
        ELSE NoWork

\* searchAll(query): films and series, most popular first
searchAll(query) == SortByPopularity(searchMovies(query, 0) \o searchTvShows(query, 0))

\* chooseMatch(query, ...) with the answer of the user: 0 skips (or gives up the
\* search), k picks the k-th candidate; a single candidate is taken unasked.
chooseMatch(query, choice) ==
    LET top == searchAll(query)
    IN  IF top = <<>> THEN NoWork
        ELSE IF Len(top) = 1 THEN top[1]
        ELSE IF choice \in 1..Len(top) THEN top[choice]
        ELSE NoWork

MaxBatch == 2

\* The records of an input file (rows of the CSV, items of fromdouban.json).
\* respond is the status the catalog answers requests made for the record with.
BatchRecord(title, year, imdb, tmdb, respond) ==
    [title |-> title, year |-> year, imdb_id |-> imdb, tmdb_id |-> tmdb, respond |-> respond]

BatchRecords ==
    {BatchRecord(t, 0, i, 0, r) : t \in {0, 1, 2}, i \in {0, 1, 2}, r \in {200, 500}}
        \cup {BatchRecord(1, 1, 0, 0, 200)}
        \cup {BatchRecord(1, 0, i, 3, 200) : i \in {0, 1}}

BatchScripts == {"export_douban_json", "import_douban"}

InitBatch ==
    /\ \E script \in BatchScripts, records \in SeqsUpTo(BatchRecords, MaxBatch) :
          /\ records # <<>>
          /\ job = [pc |-> "batch", script |-> script, records |-> records, index |-> 1,
                    results |-> <<>>, aborted |-> FALSE, written |-> FALSE,
                    exitCode |-> 0]
    /\ lib = EmptyLibrary
    /\ last = NoRun
    /\ clock = 0
    /\ ops = 0
    /\ mrg = [pc |-> "off"]
    /\ snap = [pc |-> "off"]
    /\ outFile = [exists |-> FALSE, items |-> <<>>]
    /\ cred = [pc |-> "off"]

BatchFrame == UNCHANGED <<lib, last, clock, ops, mrg, snap, outFile, cred>>

BatchAt(script) ==
    /\ job.pc = "batch" /\ job.script = script
    /\ job.index <= Len(job.records)

BatchItem == job.records[job.index]

BatchResult(tmdbId, lookups) ==
    [index |-> job.index, tmdb_id |-> tmdbId, lookups |-> lookups]

\* What one turn of the loop of export_douban_json does with the item:
\* "skip" (no title), or the pushed result with the lookups made for it.
ExportTurnOf(item) ==
    LET best == pickBestMatch(searchMovies(item.title, item.year)
                                  \o searchTvShows(item.title, item.year),
                              item.title, item.year)
    IN  IF item.title = 0 THEN [kind |-> "skip", tmdb_id |-> 0, lookups |-> <<>>]
        ELSE IF item.imdb_id # 0 THEN [kind |-> "push", tmdb_id |-> 0, lookups |-> <<>>]
        ELSE [kind |-> "push", tmdb_id |-> best.id, lookups |-> <<"search">>]

\* export_douban_json: a turn of the loop that ends (continue, or results.push)
ExportTurn ==
    /\ BatchAt("export_douban_json")
    /\ LET turn == ExportTurnOf(BatchItem)
       IN  /\ turn.lookups # <<>> => ResponseOk(BatchItem.respond)
           /\ job' = [job EXCEPT
                         !.index = @ + 1,
                         !.results = IF turn.kind = "push"
                                     THEN Append(@, BatchResult(turn.tmdb_id, turn.lookups))
                                     ELSE @]
    /\ BatchFrame

\* export_douban_json: searchMovies / searchTvShows throws, main rejects, the
\* catch reports and sets process.exitCode = 1
ExportFails ==
    /\ BatchAt("export_douban_json")
    /\ ExportTurnOf(BatchItem).lookups # <<>> /\ ~ResponseOk(BatchItem.respond)
    /\ job' = [job EXCEPT !.pc = "done", !.aborted = TRUE, !.exitCode = 1]
    /\ BatchFrame

\* export_douban_json: writeFile(OUTPUT_PATH, results)
ExportWrite ==
    /\ job.pc = "batch" /\ job.script = "export_douban_json"
    /\ job.index > Len(job.records)
    /\ job' = [job EXCEPT !.pc = "done", !.written = TRUE]
    /\ BatchFrame

\* What one turn of the loop of import_douban does with the item and the
\* answer the user gives chooseMatch.
ImportTurnOf(item, choice) ==
    LET found == findByImdb(item.imdb_id)
        query == IF item.title # 0 THEN item.title ELSE item.imdb_id
        chosen == chooseMatch(query, choice)
        lookups == (IF item.imdb_id # 0 THEN <<"find">> ELSE <<>>)
                       \o (IF found.id = 0 THEN <<"search">> ELSE <<>>)
        match == IF found.id # 0 THEN found ELSE chosen
    IN  IF item.title = 0 /\ item.imdb_id = 0
            THEN [kind |-> "skip", tmdb_id |-> 0, lookups |-> <<>>]
        ELSE IF match.id = 0 THEN [kind |-> "skip", tmdb_id |-> 0, lookups |-> lookups]
        ELSE [kind |-> "push", tmdb_id |-> match.id, lookups |-> lookups]

\* import_douban: a turn of the loop that ends (continue, or updates.push)
ImportDoubanTurn ==
    /\ BatchAt("import_douban")
    /\ \E choice \in 0..Len(Works) :
          LET turn == ImportTurnOf(BatchItem, choice)
          IN  /\ turn.lookups # <<>> => ResponseOk(BatchItem.respond)
              /\ job' = [job EXCEPT
                            !.index = @ + 1,
                            !.results = IF turn.kind = "push"
                                        THEN Append(@, BatchResult(turn.tmdb_id, turn.lookups))
                                        ELSE @]
    /\ BatchFrame

\* import_douban: findByImdb / searchAll throws, main rejects, the catch reports
\* and sets process.exitCode = 1
ImportDoubanFails ==
    /\ BatchAt("import_douban")
    /\ ImportTurnOf(BatchItem, 0).lookups # <<>> /\ ~ResponseOk(BatchItem.respond)
    /\ job' = [job EXCEPT !.pc = "done", !.aborted = TRUE, !.exitCode = 1]
    /\ BatchFrame

\* import_douban: no updates, or saveLibrary(updatedLibrary)
ImportDoubanWrite ==
    /\ job.pc = "batch" /\ job.script = "import_douban"
    /\ job.index > Len(job.records)
    /\ job' = [job EXCEPT !.pc = "done", !.written = job.results # <<>>]
    /\ BatchFrame

NextBatch ==
    \/ ExportTurn
    \/ ExportFails
    \/ ExportWrite
    \/ ImportDoubanTurn
    \/ ImportDoubanFails
    \/ ImportDoubanWrite

SpecBatch == InitBatch /\ [][NextBatch]_vars

ResultsOf(index) == {i \in 1..Len(job.results) : job.results[i].index = index}

\* C11: the catalog id of a record is resolved from a directly supplied id if
\* there is one, else by a find-by-IMDb-id lookup if the record has an IMDb id,
\* else by a title search; a record with an IMDb id the catalog knows ends with
\* that work's catalog id.
C11_ResolutionOrder ==
    (job.pc = "done" /\ job.written) =>
        /\ \A i \in 1..Len(job.results) :
              LET r == job.results[i]
                  item == job.records[r.index]
              IN  IF item.tmdb_id # 0 THEN r.tmdb_id = item.tmdb_id /\ r.lookups = <<>>
                  ELSE IF item.imdb_id # 0 THEN r.lookups # <<>> /\ r.lookups[1] = "find"
                  ELSE r.lookups = <<"search">>
        /\ \A k \in 1..Len(job.records) :
              findByImdb(job.records[k].imdb_id).id # 0 =>
                  \E i \in ResultsOf(k) :
                      job.results[i].tmdb_id \in
                          {job.records[k].tmdb_id, findByImdb(job.records[k].imdb_id).id}

\* The same for import_douban and records without a directly supplied id.
C11_ImportDoubanWithoutDirectId ==
    (job.pc = "done" /\ job.written /\ job.script = "import_douban"
        /\ \A k \in 1..Len(job.records) : job.records[k].tmdb_id = 0) =>
        /\ \A i \in 1..Len(job.results) :
              LET r == job.results[i]
                  item == job.records[r.index]
              IN  IF item.imdb_id # 0 THEN r.lookups # <<>> /\ r.lookups[1] = "find"
                  ELSE r.lookups = <<"search">>
        /\ \A k \in 1..Len(job.records) :
              findByImdb(job.records[k].imdb_id).id # 0 =>
                  \E i \in ResultsOf(k) :
                      job.results[i].tmdb_id = findByImdb(job.records[k].imdb_id).id

\* A record can be resolved: it has a title and the catalog answers its requests.
Resolvable(item) == item.title = 1 /\ ResponseOk(item.respond)

\* C12: a record whose resolution fails (no match, or a failed catalog request)
\* is skipped; the run does not abort, and the other records are processed and
\* written.
C12_UnresolvableNeverAborts ==
    job.pc = "done" =>
        /\ ~job.aborted /\ job.exitCode = 0
        /\ \A k \in 1..Len(job.records) :
              Resolvable(job.records[k]) => (job.written /\ ResultsOf(k) # {})

\* The same when the catalog answers every request made.
C12_NoMatchNeverAborts ==
    (job.pc = "done" /\ \A k \in 1..Len(job.records) : ResponseOk(job.records[k].respond)) =>
        /\ ~job.aborted /\ job.exitCode = 0
        /\ \A k \in 1..Len(job.records) :
              (job.records[k].title = 1 /\ job.script = "export_douban_json")
                  => (job.written /\ ResultsOf(k) # {})

\* ------------------------------------------------- import_from_json on a file
\* Items of a fromdouban.json beside those of JsonItems: one with a tmdb_id and
\* an empty title, as export_douban_json never writes but a hand-edited file holds.
JsonFileItems ==
    JsonItems \cup {[tmdb_id |-> 2, title |-> 0, media_type |-> "movie",
                     watch_date |-> Iso(1), my_rating |-> -1, note |-> 0]}

InitJson ==
    /\ lib \in InitLibraries
    /\ \E items \in ItemLists(JsonFileItems) :
          job = [pc |-> "json", items |-> items]
    /\ last = NoRun
    /\ clock = 0
    /\ ops = 0
    /\ mrg = [pc |-> "off"]
    /\ snap = [pc |-> "off"]
    /\ outFile = [exists |-> FALSE, items |-> <<>>]
    /\ cred = [pc |-> "off"]

RunImportFromJson(current) ==
    /\ job.pc = "json"
    /\ lib' = importFromJson(lib, job.items, "utc", current)
    /\ job' = [job EXCEPT !.pc = "written"]
    /\ UNCHANGED <<last, clock, ops, mrg, snap, outFile, cred>>

\* node scripts/import_from_json.js <file> (first version)
RunImportFromJsonV1 == RunImportFromJson(FALSE)

\* node scripts/import_from_json.js <file> (current version)
RunImportFromJsonCurrent == RunImportFromJson(TRUE)

NextJson == RunImportFromJsonV1 \/ RunImportFromJsonCurrent

SpecJson == InitJson /\ [][NextJson]_vars

ItemInWatched(item) ==
    \E k \in 1..Len(lib.watched) :
        /\ lib.watched[k].id = item.tmdb_id
        /\ normaliseDate(item.watch_date, "utc") # 0 =>
              normaliseDate(item.watch_date, "utc") \in SeqToSet(extractDates(lib.watched[k]))

\* C13: after import_from_json has written the library, every item of the input
\* array that has a tmdb_id is an entry of watched, and the item's watch date is
\* among that entry's dates.
C13_EveryItemWithIdImported ==
    job.pc = "written" =>
        \A k \in 1..Len(job.items) :
            job.items[k].tmdb_id # 0 => ItemInWatched(job.items[k])

\* C13, for the items the loop does not skip: those with a tmdb_id, a title and
\* a media_type that is absent or 'movie'.
C13_EveryMovieItemImported ==
    job.pc = "written" =>
        \A k \in 1..Len(job.items) :
            JsonImported(job.items[k]) => ItemInWatched(job.items[k])

\* ------------------------------------------------------ order of the watched list
\* The latest viewing of an entry: the greatest of its dates, 0 when it has none.
LatestViewing(e) ==
    LET dates == SeqToSet(extractDates(e)) \ {0}
    IN  IF dates = {} THEN 0 ELSE Max(dates)

\* Newest first, entries without a date after every dated entry.
NewestFirst(list) ==
    \A i \in 1..Len(list), j \in 1..Len(list) :
        i < j => LatestViewing(list[i]) >= LatestViewing(list[j])

ImportOps == {"import_douban", "import_from_json"}

\* C14: after an import script (import_douban, import_from_json) has written the
\* library, watched is ordered by each entry's latest watch date, newest first,
\* entries without a date last, whatever scripts wrote the library before.
C14_WatchedNewestFirst ==
    last.op \in ImportOps => NewestFirst(lib.watched)

\* C14, for the lists the comparator of the current import_from_json leaves in
\* place and whose entries all keep their dates earliest first.
C14_SortedWhenDatesAscending ==
    (/\ last.op \in ImportOps
     /\ lib.watched = sortByLatestWatchDateDesc(lib.watched)
     /\ \A k \in 1..Len(lib.watched) :
           /\ lib.watched[k].hasDates
           /\ IsAscending(lib.watched[k].watchDates)
           /\ \A d \in SeqToSet(lib.watched[k].watchDates) : IsIsoDate(d))
        => NewestFirst(lib.watched)

\* ------------------------------------------------------ order of an entry's dates
\* The entries of the library that the last run wrote: those the library before
\* the run did not hold in the same form.
WrittenByLastRun ==
    IF last.op = "none" THEN {}
    ELSE {e \in StoredEntriesOf(lib) : e \notin StoredEntriesOf(last.pre)}

\* C15: every entry a script has written keeps watchDates earliest first, and its
\* watchDate, when present, is the first element of watchDates, the earliest date.
C15_DatesEarliestFirst ==
    \A e \in WrittenByLastRun :
        /\ e.hasDates => IsAscending(e.watchDates)
        /\ Truthy(e.watchDate) =>
              /\ e.hasDates /\ e.watchDates # <<>>
              /\ e.watchDate = e.watchDates[1]
              /\ \A d \in SeqToSet(e.watchDates) : e.watchDate <= d

\* C15, without the direction: an entry written by a script other than
\* add-web-video keeps its dates in one strict order, earliest first or newest
\* first, and its watchDate, when present, is the first element.
C15_DatesInOneOrder ==
    last.op # "add_web_video" =>
        \A e \in WrittenByLastRun :
            e.hasDates =>
                /\ IsAscending(e.watchDates) \/ IsDescending(e.watchDates)
                /\ (Truthy(e.watchDate) /\ e.watchDates # <<>>) =>
                      e.watchDate = e.watchDates[1]

\* ------------------------------------------------- fields of a snapshot item
\* The fields of the library entry e that the snapshot item carries, inCinema
\* left aside: those the entry has are the item's.
CarriesFields(item, e) ==
    /\ item.id = e.id
    /\ e.title # 0 => item.title = e.title
    /\ e.mediaType # "" => item.mediaType = e.mediaType
    /\ e.status # "" => item.status = e.status
    /\ SeqToSet(item.watchDates) = SeqToSet(extractDates(e)) \ {0}
    /\ e.rating # -1 => item.rating = e.rating
    /\ e.note # 0 => item.note = e.note
    /\ "tmdb" \in DOMAIN item

CarriesInCinema(item, e) ==
    "inCinema" \in DOMAIN e => ("inCinema" \in DOMAIN item /\ item.inCinema = e.inCinema)

\* C16: every item of the written snapshot carries all the fields of the library
\* entry it was built from, inCinema among them, beside the tmdb object.
C16_ItemCarriesAllFields ==
    (snap.pc = "done" /\ snap.wrote /\ HasDistinctIds) =>
        \A i \in 1..Len(outFile.items), k \in 1..Len(AllLists(lib)) :
            AllLists(lib)[k].id = outFile.items[i].id =>
                /\ CarriesFields(outFile.items[i], AllLists(lib)[k])
                /\ CarriesInCinema(outFile.items[i], AllLists(lib)[k])

\* C16, for the fields upsert and buildSnapshot copy: all but inCinema.
C16_ItemCarriesCopiedFields ==
    (snap.pc = "done" /\ snap.wrote /\ HasDistinctIds) =>
        \A i \in 1..Len(outFile.items), k \in 1..Len(AllLists(lib)) :
            AllLists(lib)[k].id = outFile.items[i].id =>
                CarriesFields(outFile.items[i], AllLists(lib)[k])

\* ------------------------------------------------------------- parseCsvLine
\* A line is a sequence of characters; the alphabet has a letter, a space, the
\* comma and the double quote.
MaxLine == 4
Comma == ","
Quote == "\""
Space == " "
CsvChars == {"a", Space, Comma, Quote}
CsvLines == SeqsUpTo(CsvChars, MaxLine)

\* String.prototype.trim on a sequence of characters
RECURSIVE trimStart(_)
trimStart(q) == IF q # <<>> /\ Head(q) = Space THEN trimStart(Tail(q)) ELSE q

RECURSIVE trimEnd(_)
trimEnd(q) ==
    IF q # <<>> /\ q[Len(q)] = Space THEN trimEnd(SubSeq(q, 1, Len(q) - 1)) ELSE q

trim(q) == trimEnd(trimStart(q))

endsWith(line, char) == line # <<>> /\ line[Len(line)] = char

\* The loop of parseCsvLine from index i (1-based) with the fields pushed so far,
\* the field being read and the inQuotes flag, then the final push.
RECURSIVE parseCsvLineFrom(_, _, _, _, _)
parseCsvLineFrom(line, i, values, current, inQuotes) ==
    IF i > Len(line)
    THEN IF Len(current) > 0 \/ endsWith(line, Comma)
         THEN Append(values, trim(current))
         ELSE values
    ELSE IF line[i] = Quote
    THEN IF inQuotes /\ i + 1 <= Len(line) /\ line[i + 1] = Quote
         THEN parseCsvLineFrom(line, i + 2, values, Append(current, Quote), inQuotes)
         ELSE parseCsvLineFrom(line, i + 1, values, current, ~inQuotes)
    ELSE IF line[i] = Comma /\ ~inQuotes
    THEN parseCsvLineFrom(line, i + 1, Append(values, trim(current)), <<>>, inQuotes)
    ELSE parseCsvLineFrom(line, i + 1, values, Append(current, line[i]), inQuotes)

parseCsvLine(line) == parseCsvLineFrom(line, 1, <<>>, <<>>, FALSE)

InitCsv ==
    /\ \E line \in CsvLines : job = [pc |-> "line", line |-> line, values |-> <<>>]
    /\ lib = EmptyLibrary
    /\ last = NoRun
    /\ clock = 0
    /\ ops = 0
    /\ mrg = [pc |-> "off"]
    /\ snap = [pc |-> "off"]
    /\ outFile = [exists |-> FALSE, items |-> <<>>]
    /\ cred = [pc |-> "off"]

\* values = parseCsvLine(line)
CallParseCsvLine ==
    /\ job.pc = "line"
    /\ job' = [job EXCEPT !.pc = "parsed", !.values = parseCsvLine(job.line)]
    /\ UNCHANGED <<lib, last, clock, ops, mrg, snap, outFile, cred>>

NextCsv == CallParseCsvLine

SpecCsv == InitCsv /\ [][NextCsv]_vars

\* The positions of the commas of a line that stand outside double quotes, a
\* doubled quote inside a quoted field being one literal quote.
RECURSIVE UnquotedCommasFrom(_, _, _)
UnquotedCommasFrom(line, i, quoted) ==
    IF i > Len(line) THEN {}
    ELSE IF line[i] = Quote
    THEN IF quoted /\ i + 1 <= Len(line) /\ line[i + 1] = Quote
         THEN UnquotedCommasFrom(line, i + 2, quoted)
         ELSE UnquotedCommasFrom(line, i + 1, ~quoted)
    ELSE (IF line[i] = Comma /\ ~quoted THEN {i} ELSE {})
             \cup UnquotedCommasFrom(line, i + 1, quoted)

UnquotedCommas(line) == UnquotedCommasFrom(line, 1, FALSE)

\* C17: parseCsvLine splits a non-empty line at exactly its unquoted commas: the
\* number of fields it returns is the number of unquoted commas plus one.
C17_FieldPerUnquotedComma ==
    (job.pc = "parsed" /\ job.line # <<>>) =>
        Len(job.values) = Cardinality(UnquotedCommas(job.line)) + 1

\* C17, for the lines that do not end with a double quote: the field after the
\* last unquoted comma is pushed; a line that ends with a quote may lose it.
C17_FieldCountUnlessQuoteLast ==
    (job.pc = "parsed" /\ job.line # <<>>) =>
        /\ Len(job.values) \in {Cardinality(UnquotedCommas(job.line)),
                                Cardinality(UnquotedCommas(job.line)) + 1}
        /\ ~endsWith(job.line, Quote) =>
              Len(job.values) = Cardinality(UnquotedCommas(job.line)) + 1

\* ------------------------------------- CSV row -> fromdouban.json -> library
\* The watch-date cell of a CSV row: a date in a RawDates form, with or without
\* a time of day after a space ("2024-01-02 20:15:00").
CsvDateCells ==
    {[form |-> "iso", day |-> d, time |-> t] : d \in Days, t \in BOOLEAN}
        \cup {[form |-> "slash", day |-> MaxDay, time |-> FALSE]}

\* parseCsv: watchDateRaw.split(' ')[0], the cell up to its first space
splitDate(cell) == [form |-> cell.form, day |-> cell.day]

\* parseCsv: the record of a row
parseCsvRecord(row) ==
    [title |-> row.title, year |-> 0, watch_date |-> splitDate(row.watch_date),
     imdb_id |-> row.imdb_id]

\* main of export_douban_json: the object results.push writes for a record
ExportedItem(record) ==
    LET best == pickBestMatch(searchMovies(record.title, record.year)
                                  \o searchTvShows(record.title, record.year),
                              record.title, record.year)
        searched == record.imdb_id = 0
    IN  [title |-> record.title,
         watch_date |-> record.watch_date,
         tmdb_id |-> IF searched THEN best.id ELSE 0,
         media_type |-> IF searched /\ best.id # 0 /\ best.media_type # ""
                        THEN best.media_type ELSE "movie",
         my_rating |-> -1,
         note |-> 0]

CsvRows ==
    {[title |-> t, watch_date |-> c, imdb_id |-> i] :
        t \in {1, 2, 3}, c \in CsvDateCells, i \in {0, 1}}

InitRound ==
    /\ lib \in InitLibraries
    /\ \E row \in CsvRows, respond \in {200, 500}, tz \in TimeZones :
          job = [pc |-> "csv", row |-> row, respond |-> respond, tz |-> tz,
                 file |-> <<>>, exitCode |-> 0]
    /\ last = NoRun
    /\ clock = 0
    /\ ops = 0
    /\ mrg = [pc |-> "off"]
    /\ snap = [pc |-> "off"]
    /\ outFile = [exists |-> FALSE, items |-> <<>>]
    /\ cred = [pc |-> "off"]

RoundFrame == UNCHANGED <<lib, last, clock, ops, mrg, snap, outFile, cred>>

\* node scripts/export_douban_json.js on the one-row CSV: fromdouban.json written
RoundExport ==
    /\ job.pc = "csv"
    /\ ExportTurnOf(parseCsvRecord(job.row)).lookups # <<>> => ResponseOk(job.respond)
    /\ job' = [job EXCEPT !.pc = "exported",
                          !.file = <<ExportedItem(parseCsvRecord(job.row))>>]
    /\ RoundFrame

\* node scripts/export_douban_json.js: the search throws, nothing is written
RoundExportFails ==
    /\ job.pc = "csv"
    /\ ExportTurnOf(parseCsvRecord(job.row)).lookups # <<>> /\ ~ResponseOk(job.respond)
    /\ job' = [job EXCEPT !.pc = "failed", !.exitCode = 1]
    /\ RoundFrame

RoundImportRun(current) ==
    /\ job.pc = "exported"
    /\ lib' = importFromJson(lib, job.file, job.tz, current)
    /\ job' = [job EXCEPT !.pc = "imported"]
    /\ UNCHANGED <<last, clock, ops, mrg, snap, outFile, cred>>

\* node scripts/import_from_json.js on the exported file (first version)
RoundImportV1 == RoundImportRun(FALSE)

\* node scripts/import_from_json.js on the exported file (current version)
RoundImport == RoundImportRun(TRUE)

NextRound == RoundExport \/ RoundExportFails \/ RoundImportV1 \/ RoundImport

SpecRound == InitRound /\ [][NextRound]_vars

RowInWatched ==
    \E k \in 1..Len(lib.watched) :
        /\ lib.watched[k].title = job.row.title
        /\ job.row.watch_date.day \in SeqToSet(extractDates(lib.watched[k]))

\* C18: after the export of a CSV row with a title and a watch date and the
\* import of the exported file, watched holds an entry with the row's title
\* whose watchDates contain the row's date reduced to its day.
C18_RoundTripKeepsTitleAndDate ==
    job.pc = "imported" => RowInWatched

\* C18, for the rows the export resolves to a film by title search and whose
\* date cell is in the ISO form.
C18_RoundTripOfResolvedFilm ==
    (/\ job.pc = "imported"
     /\ job.file[1].tmdb_id # 0 /\ job.file[1].media_type = "movie"
     /\ job.row.watch_date.form = "iso") => RowInWatched

\* ------------------------------------------------------ scraping Douban pages
MaxScrapes == 3
DoubanUrls == {0, 1, 2}

\* The IMDb ids a page can hold.
ImdbIds == {1, 2}

\* new Map() and Map.prototype.set
EmptyMap == [u \in {} |-> 0]
MapSet(map, key, value) ==
    [u \in DOMAIN map \cup {key} |-> IF u = key THEN value ELSE map[u]]

InitScrape ==
    /\ \E urls \in SeqsUpTo(DoubanUrls, MaxScrapes) :
          /\ urls # <<>>
          /\ job = [pc |-> "scrape", urls |-> urls, index |-> 1, imdbCache |-> EmptyMap,
                    failCache |-> {}, log |-> <<>>, returns |-> <<>>]
    /\ lib = EmptyLibrary
    /\ last = NoRun
    /\ clock = 0
    /\ ops = 0
    /\ mrg = [pc |-> "off"]
    /\ snap = [pc |-> "off"]
    /\ outFile = [exists |-> FALSE, items |-> <<>>]
    /\ cred = [pc |-> "off"]

ScrapeFrame == UNCHANGED <<lib, last, clock, ops, mrg, snap, outFile, cred>>

ScrapeUrl == job.urls[job.index]

Requested(url, outcome) == [kind |-> "request", url |-> url, outcome |-> outcome, ms |-> 0]
Delayed(url, ms) == [kind |-> "delay", url |-> url, outcome |-> "", ms |-> ms]
Returned(url, result) == [url |-> url, result |-> result]

\* fetchImdbFromDouban that does not remember the pages without an id.
fetchImdbFromDoubanForgetful(state, url, outcome, imdbId) ==
    IF url = 0 \/ url \in state.failCache
    THEN [state EXCEPT !.returns = Append(@, Returned(url, 0))]
    ELSE IF url \in DOMAIN state.imdbCache
    THEN [state EXCEPT !.returns = Append(@, Returned(url, state.imdbCache[url]))]
    ELSE CASE outcome = "found" ->
                [state EXCEPT !.imdbCache = MapSet(@, url, imdbId),
                              !.log = @ \o <<Requested(url, outcome), Delayed(url, 400)>>,
                              !.returns = Append(@, Returned(url, imdbId))]
           [] outcome = "not_found" ->
                [state EXCEPT !.log = @ \o <<Requested(url, outcome), Delayed(url, 200)>>,
                              !.returns = Append(@, Returned(url, 0))]
           [] outcome \in {"not_ok", "exception"} ->
                [state EXCEPT !.failCache = @ \cup {url},
                              !.log = @ \o <<Requested(url, outcome)>>,
                              !.returns = Append(@, Returned(url, 0))]

\* fetchImdbFromDouban(url) from the call to the return: the requests and the
\* timers of the call are appended to the log, the caches updated, and the
\* value returned (0 for null) is appended to returns.
fetchImdbFromDouban(state, url, outcome, imdbId) ==
    IF url = 0 \/ url \in state.failCache
    THEN [state EXCEPT !.returns = Append(@, Returned(url, 0))]
    ELSE IF url \in DOMAIN state.imdbCache
    THEN [state EXCEPT !.returns = Append(@, Returned(url, state.imdbCache[url]))]
    ELSE CASE outcome = "found" ->
                [state EXCEPT !.imdbCache = MapSet(@, url, imdbId),
                              !.log = @ \o <<Requested(url, outcome), Delayed(url, 400)>>,
                              !.returns = Append(@, Returned(url, imdbId))]
           [] outcome = "not_found" ->
                [state EXCEPT !.failCache = @ \cup {url},
                              !.log = @ \o <<Requested(url, outcome), Delayed(url, 200)>>,
                              !.returns = Append(@, Returned(url, 0))]
           [] outcome = "not_ok" ->
                [state EXCEPT !.failCache = @ \cup {url},
                              !.log = @ \o <<Requested(url, outcome)>>,
                              !.returns = Append(@, Returned(url, 0))]
           [] outcome = "exception" ->
                [state EXCEPT !.failCache = @ \cup {url},
                              !.log = @ \o <<Requested(url, outcome)>>,
                              !.returns = Append(@, Returned(url, 0))]

InCaches(url) == url \in job.failCache \cup DOMAIN job.imdbCache

ScrapeCall(outcome) ==
    /\ job.pc = "scrape" /\ job.index <= Len(job.urls)
    /\ ScrapeUrl # 0 /\ ~InCaches(ScrapeUrl)
    /\ \E imdbId \in ImdbIds :
          job' = [fetchImdbFromDouban(job, ScrapeUrl, outcome, imdbId)
                      EXCEPT !.index = @ + 1]
    /\ ScrapeFrame

\* the page holds an IMDb id
ScrapeFound == ScrapeCall("found")

\* the page holds no IMDb id
ScrapeNotFound == ScrapeCall("not_found")

\* the response is not ok
ScrapeNotOk == ScrapeCall("not_ok")

\* fetch rejects
ScrapeException == ScrapeCall("exception")

\* no url, or the url is in one of the caches: no request
ScrapeSkipped ==
    /\ job.pc = "scrape" /\ job.index <= Len(job.urls)
    /\ ScrapeUrl = 0 \/ InCaches(ScrapeUrl)
    /\ job' = [fetchImdbFromDouban(job, ScrapeUrl, "found", 1) EXCEPT !.index = @ + 1]
    /\ ScrapeFrame

\* the loop of main is over
ScrapeEnd ==
    /\ job.pc = "scrape" /\ job.index > Len(job.urls)
    /\ job' = [job EXCEPT !.pc = "done"]
    /\ ScrapeFrame

NextScrape ==
    \/ ScrapeFound
    \/ ScrapeNotFound
    \/ ScrapeNotOk
    \/ ScrapeException
    \/ ScrapeSkipped
    \/ ScrapeEnd

SpecScrape == InitScrape /\ [][NextScrape]_vars

DelayFollows(i) ==
    i < Len(job.log) /\ job.log[i + 1].kind = "delay" /\ job.log[i + 1].ms > 0

\* C19: every scrape request is followed by a delay before the next scrape
\* request, whatever its outcome: id found, id not found, response not ok,
\* exception.
C19_DelayAfterEveryScrape ==
    \A i \in 1..Len(job.log) :
        job.log[i].kind = "request" => DelayFollows(i)

\* C19, for the scrapes that read a page: a delay follows when the id was found
\* (400 ms) and when it was not (200 ms); no url is requested twice.
C19_DelayAfterPageRead ==
    /\ \A i \in 1..Len(job.log) :
          (job.log[i].kind = "request" /\ job.log[i].outcome \in {"found", "not_found"})
              => DelayFollows(i)
    /\ \A i \in 1..Len(job.log), j \in 1..Len(job.log) :
          (i # j /\ job.log[i].kind = "request" /\ job.log[j].kind = "request")
              => job.log[i].url # job.log[j].url

\* ------------------------------------------------- fetching the rated movies
MaxPages == 4

\* data.total_pages of a response: a page count, or -1 when the field is absent.
ReportedTotals == (1..MaxPages) \cup {-1}

\* data.results of page p: two items on page 2, one on every other page.
PageResults(p) == [k \in 1..(IF p = 2 THEN 2 ELSE 1) |-> <<p, k>>]

\* while (page <= totalPages)
MorePagesExclusive(page, totalPages) == page < totalPages

MorePages(page, totalPages) == page <= totalPages

InitRated ==
    /\ outFile \in OldSnapshots
    /\ job = [pc |-> "pages", page |-> 1, totalPages |-> 1, rated |-> <<>>,
              requests |-> <<>>, reported |-> <<>>, old |-> outFile,
              status |-> 200, exitCode |-> 0, wrote |-> FALSE]
    /\ lib = EmptyLibrary
    /\ last = NoRun
    /\ clock = 0
    /\ ops = 0
    /\ mrg = [pc |-> "off"]
    /\ snap = [pc |-> "off"]
    /\ cred = [pc |-> "off"]

RatedFrame == UNCHANGED <<lib, last, clock, ops, mrg, snap, cred>>

\* fetchRatedMovies: a turn of the loop whose response is ok
RatedPageOk ==
    /\ job.pc = "pages" /\ MorePages(job.page, job.totalPages)
    /\ \E total \in ReportedTotals :
          job' = [job EXCEPT
                     !.requests = Append(@, job.page),
                     !.reported = Append(@, total),
                     !.rated = @ \o PageResults(job.page),
                     !.totalPages = IF total = -1 THEN 1 ELSE total,
                     !.page = @ + 1]
    /\ UNCHANGED outFile
    /\ RatedFrame

\* fetchRatedMovies: the response is not ok, the throw reaches the catch of
\* main, which reports and sets process.exitCode = 1
RatedPageFails ==
    /\ job.pc = "pages" /\ MorePages(job.page, job.totalPages)
    /\ \E status \in {s \in ResponseStatuses : ~ResponseOk(s)} :
          job' = [job EXCEPT !.requests = Append(@, job.page), !.status = status,
                             !.pc = "done", !.exitCode = 1]
    /\ UNCHANGED outFile
    /\ RatedFrame

\* main: fetchRatedMovies returned, the payload is written
RatedWrite ==
    /\ job.pc = "pages" /\ ~MorePages(job.page, job.totalPages)
    /\ outFile' = writeFile(outFile, job.rated)
    /\ job' = [job EXCEPT !.pc = "done", !.wrote = TRUE]
    /\ RatedFrame

NextRated == RatedPageOk \/ RatedPageFails \/ RatedWrite

SpecRated == InitRated /\ [][NextRated]_vars

RECURSIVE ResultsOfPages(_)
ResultsOfPages(n) == IF n = 0 THEN <<>> ELSE ResultsOfPages(n - 1) \o PageResults(n)

ReportsConstant(total) == \A i \in 1..Len(job.reported) : job.reported[i] = total

\* C20: while every response reports the same total_pages, the pages requested
\* are 1, 2, ... in increasing order, each once and none beyond total_pages; a
\* run that writes has requested exactly the pages 1..total_pages and writes
\* their items in page order; a run with a non-success response ends with a
\* non-zero exit code and leaves the snapshot file as it was.
C20_WalksEveryPageOnce ==
    /\ \A total \in 1..MaxPages :
          ReportsConstant(total) =>
              /\ job.requests = [i \in 1..Len(job.requests) |-> i]
              /\ Len(job.requests) <= total
              /\ job.wrote =>
                    /\ Len(job.requests) = total
                    /\ outFile.items = ResultsOfPages(total)
    /\ (job.pc = "done" /\ ~job.wrote) =>
          /\ job.exitCode # 0
          /\ outFile = job.old
    /\ job.wrote => job.exitCode = 0 /\ outFile.exists

\* A run that walked MaxPages pages and wrote their items over an earlier file.
C20_Witness ==
    /\ job.pc = "done" /\ job.wrote
    /\ ReportsConstant(MaxPages)
    /\ job.requests = [i \in 1..MaxPages |-> i]
    /\ job.old.exists /\ job.old.items # <<>>
    /\ outFile.items = ResultsOfPages(MaxPages)

\* ------------------------------------------------------------- the front end
\* The items of data/movies.json as the page reads them. key is the identity of
\* the object (its place in the array); status is the string of the file, ""
\* when absent; watchDate stands for watchDates[0] and release for
\* tmdb.release_date, 0 when absent.
MaxItems == 2
ItemStatuses == {"", "watching", "Wishlist", "planned", "watched", "dropped"}
ItemMediaTypes == {"", "movie", "tv"}
FilterValues == {"all", "movie", "tv"}

GalleryItem(key, mediaType, status, watchDate, release) ==
    [key |-> key, mediaType |-> mediaType, status |-> status, watchDate |-> watchDate,
     release |-> release]

GallerySnapshots ==
    {<<>>}
        \cup {<<GalleryItem(1, m, s, w, r)>> :
                 m \in ItemMediaTypes, s \in ItemStatuses, w \in {0, 1}, r \in {0, 1}}
        \cup {<<GalleryItem(1, m1, s1, w, 1), GalleryItem(2, m2, s2, 1, r)>> :
                 m1 \in ItemMediaTypes, m2 \in ItemMediaTypes,
                 s1 \in ItemStatuses, s2 \in ItemStatuses, w \in {0, 1}, r \in {0, 1}}

\* String.prototype.toLowerCase on the statuses of the model
toLowerCase(status) == IF status = "Wishlist" THEN "wishlist" ELSE status

\* filterMoviesByType(movies, filterType)
filterMoviesByType(movies, filterType) ==
    IF filterType = "all" THEN movies
    ELSE SelectSeq(movies, LAMBDA movie :
             (IF movie.mediaType # "" THEN movie.mediaType ELSE "movie") = filterType)

\* The predicate of watchingMovies in movies.js
IsWatchingStatus(movie) ==
    toLowerCase(movie.status) \in {"watching", "in-progress", "ongoing", "wishlist", "planned"}

\* The predicate of watchingMovies in the renderer without filter buttons
IsWatchingStatusV1(movie) ==
    toLowerCase(movie.status) \in {"watching", "in-progress", "ongoing"}

\* The comparators of sortMoviesByReleaseDate / sortMoviesByWatchDate: TRUE when a
\* sorts strictly before b (dated before undated, newer first, then by title,
\* which the key stands for).
MovieBefore(a, b, sortMode) ==
    LET da == IF sortMode = "watch" THEN a.watchDate ELSE a.release
        db == IF sortMode = "watch" THEN b.watchDate ELSE b.release
    IN  IF da # 0 /\ db # 0 /\ da # db THEN da > db
        ELSE IF da # 0 /\ db = 0 THEN TRUE
        ELSE IF da = 0 /\ db # 0 THEN FALSE
        ELSE a.key < b.key

RECURSIVE InsertMovie(_, _, _)
InsertMovie(sorted, movie, sortMode) ==
    IF sorted = <<>> THEN <<movie>>
    ELSE IF MovieBefore(movie, Head(sorted), sortMode) THEN <<movie>> \o sorted
    ELSE <<Head(sorted)>> \o InsertMovie(Tail(sorted), movie, sortMode)

RECURSIVE sortMovies(_, _)
sortMovies(list, sortMode) ==
    IF list = <<>> THEN <<>>
    ELSE InsertMovie(sortMovies(SubSeq(list, 1, Len(list) - 1), sortMode),
                     list[Len(list)], sortMode)

\* container.innerHTML = '' at the head of renderMovies
clearContainerKeepingCards(cards) == cards

clearContainer(cards) == <<>>

\* renderList(container, emptyMessageEl, list, sortMode) on a section of the page
renderList(section, list, sortMode) ==
    LET sorted == sortMovies(list, sortMode)
    IN  IF sorted = <<>> THEN [section EXCEPT !.emptyHidden = FALSE]
        ELSE [cards |-> section.cards \o sorted, emptyHidden |-> TRUE]

\* renderMovies(movies) of movies.js on the page
renderMovies(page, movies, currentFilter) ==
    LET filteredMovies == filterMoviesByType(movies, currentFilter)
        watchingMovies == SelectSeq(filteredMovies, IsWatchingStatus)
        watchedMovies == SelectSeq(filteredMovies,
                                   LAMBDA movie : movie \notin SeqToSet(watchingMovies))
        cleared == [watching |-> [page.watching EXCEPT !.cards = clearContainer(@)],
                    watched |-> [page.watched EXCEPT !.cards = clearContainer(@)]]
    IN  [watching |-> renderList(cleared.watching, watchingMovies, "release"),
         watched |-> renderList(cleared.watched, watchedMovies, "watch")]

\* renderMovies(movies) of the renderer without filter buttons
renderMoviesV1(page, movies) ==
    LET watchingMovies == SelectSeq(movies, IsWatchingStatusV1)
        watchedMovies == SelectSeq(movies,
                                   LAMBDA movie : movie \notin SeqToSet(watchingMovies))
        cleared == [watching |-> [page.watching EXCEPT !.cards = clearContainer(@)],
                    watched |-> [page.watched EXCEPT !.cards = clearContainer(@)]]
    IN  [watching |-> renderList(cleared.watching, watchingMovies, "watch"),
         watched |-> renderList(cleared.watched, watchedMovies, "watch")]

\* The page as index.html delivers it: no card, both empty messages hidden or
\* shown as the markup has them.
InitGalleryPage ==
    /\ \E file \in GallerySnapshots, version \in {"movies.js", "v1"}, hidden \in BOOLEAN :
          job = [pc |-> "onload", version |-> version, file |-> file, allMovies |-> <<>>,
                 currentFilter |-> "all",
                 page |-> [watching |-> [cards |-> <<>>, emptyHidden |-> hidden],
                           watched |-> [cards |-> <<>>, emptyHidden |-> hidden]]]
    /\ lib = EmptyLibrary
    /\ last = NoRun
    /\ clock = 0
    /\ ops = 0
    /\ mrg = [pc |-> "off"]
    /\ snap = [pc |-> "off"]
    /\ outFile = [exists |-> FALSE, items |-> <<>>]
    /\ cred = [pc |-> "off"]

GalleryFrame == UNCHANGED <<lib, last, clock, ops, mrg, snap, outFile, cred>>

\* window.onload = initGallery of movies.js: the snapshot is fetched and rendered
initGallery ==
    /\ job.pc = "onload" /\ job.version = "movies.js"
    /\ job' = [job EXCEPT !.pc = "ready", !.allMovies = job.file,
                          !.page = renderMovies(job.page, job.file, job.currentFilter)]
    /\ GalleryFrame

\* initGallery when fetchMoviesFromList catches an error and returns []
initGalleryFetchFails ==
    /\ job.pc = "onload" /\ job.version = "movies.js"
    /\ job' = [job EXCEPT !.pc = "ready", !.allMovies = <<>>,
                          !.page = renderMovies(job.page, <<>>, job.currentFilter)]
    /\ GalleryFrame

\* window.onload = initGallery of the renderer without filter buttons
initGalleryV1 ==
    /\ job.pc = "onload" /\ job.version = "v1"
    /\ job' = [job EXCEPT !.pc = "ready", !.allMovies = job.file,
                          !.page = renderMoviesV1(job.page, job.file)]
    /\ GalleryFrame

\* The click listener of a filter button
ClickFilter ==
    /\ job.pc = "ready" /\ job.version = "movies.js"
    /\ \E filter \in FilterValues :
          job' = [job EXCEPT !.currentFilter = filter,
                             !.page = renderMovies(job.page, job.allMovies, filter)]
    /\ GalleryFrame

NextGallery == initGallery \/ initGalleryFetchFails \/ initGalleryV1 \/ ClickFilter

SpecGallery == InitGalleryPage /\ [][NextGallery]_vars

PassesFilter(movie) ==
    \/ job.currentFilter = "all"
    \/ (IF movie.mediaType = "" THEN "movie" ELSE movie.mediaType) = job.currentFilter

CardsOf(section, movie) == {i \in 1..Len(section.cards) : section.cards[i] = movie}

BelongsToWatching(movie) ==
    movie.status \in {"watching", "wishlist", "Wishlist", "in-progress", "ongoing", "planned"}

\* Every item that passes the filter has one card, in the section of its status.
InItsSection(movie) ==
    IF BelongsToWatching(movie)
    THEN Cardinality(CardsOf(job.page.watching, movie)) = 1
             /\ CardsOf(job.page.watched, movie) = {}
    ELSE Cardinality(CardsOf(job.page.watched, movie)) = 1
             /\ CardsOf(job.page.watching, movie) = {}

\* C21: once the page has rendered, every item that passes the selected filter is
\* in exactly one section: the watching section when its status is watching or
\* wishlist (or an alias), the watched section otherwise.
C21_EveryItemInItsSection ==
    job.pc = "ready" =>
        \A i \in 1..Len(job.allMovies) :
            PassesFilter(job.allMovies[i]) => InItsSection(job.allMovies[i])

\* C21, for the page of movies.js.
C21_MoviesJsSections ==
    (job.pc = "ready" /\ job.version = "movies.js") =>
        \A i \in 1..Len(job.allMovies) :
            PassesFilter(job.allMovies[i]) => InItsSection(job.allMovies[i])

AllCards == job.page.watching.cards \o job.page.watched.cards

\* C25: after the snapshot has loaded and after any clicks on filter buttons, the
\* cards of the two sections are exactly the snapshot items that match the
\* selected filter (an item without mediaType counting as movie), each once, and
\* the empty message of a section is visible exactly when the section has no card.
C25_CardsMatchFilter ==
    job.pc = "ready" =>
        /\ SeqToSet(AllCards) = {m \in SeqToSet(job.allMovies) : PassesFilter(m)}
        /\ Len(AllCards) = Cardinality(SeqToSet(AllCards))
        /\ job.page.watching.emptyHidden = (job.page.watching.cards # <<>>)
        /\ job.page.watched.emptyHidden = (job.page.watched.cards # <<>>)

\* The tv filter selected on a snapshot of a series and a film without
\* mediaType: one card, the series, in a page that showed both before.
C25_Witness ==
    /\ job.pc = "ready" /\ job.version = "movies.js"
    /\ job.currentFilter = "tv"
    /\ Len(job.allMovies) = MaxItems
    /\ job.allMovies[1].mediaType = "" /\ job.allMovies[2].mediaType = "tv"
    /\ AllCards = <<job.allMovies[2]>>
    /\ ~job.page.watching.emptyHidden /\ job.page.watched.emptyHidden

\* ----------------------------------------- scripts/import_douban.js (by title)
\* The items of the input file: a title (0 when missing) and a watch date.
TitleItems ==
    {[title |-> t, watch_date |-> Iso(d)] : t \in {0, 1, 2, 3}, d \in Days}

\* chooseMatch(initialQuery, ...) with the answers of the user: requery is the
\* search term typed when nothing was found (0: left empty), choice the number
\* typed at the list (0: skip). NoWork stands for null.
chooseMatchByTitle(initialQuery, requery, choice) ==
    LET first == searchMovies(initialQuery, 0)
        results == IF first # <<>> THEN first
                   ELSE IF requery # 0 THEN searchMovies(requery, 0) ELSE <<>>
    IN  IF results = <<>> \/ choice \notin 1..Len(results) THEN NoWork
        ELSE results[choice]

\* The element main pushes to updates for a matched item
TitleUpdate(library, item, match) ==
    LET all == library.watching \o library.watched \o library.wishlist
        idx == findIndex(all, match.id)
        watchDate == normaliseDate(item.watch_date, "utc")
        mergedDates == dedupeDates(IF idx # 0 THEN extractDates(all[idx]) ELSE <<>>,
                                   IF watchDate # 0 THEN <<watchDate>> ELSE <<>>)
    IN  [id |-> match.id, title |-> item.title, watchDates |-> mergedDates]

InitTitleImport ==
    /\ lib \in InitLibraries
    /\ \E items \in SeqsUpTo(TitleItems, MaxBatch), respond \in {200, 500} :
          /\ items # <<>>
          /\ job = [pc |-> "items", items |-> items, respond |-> respond, index |-> 1,
                    updates |-> <<>>, written |-> FALSE, exitCode |-> 0]
    /\ last = NoRun
    /\ clock = 0
    /\ ops = 0
    /\ mrg = [pc |-> "off"]
    /\ snap = [pc |-> "off"]
    /\ outFile = [exists |-> FALSE, items |-> <<>>]
    /\ cred = [pc |-> "off"]

TitleFrame == UNCHANGED <<lib, last, clock, ops, mrg, snap, outFile, cred>>

TitleItem == job.items[job.index]

\* main: a turn of the loop that ends with continue or updates.push
TitleTurn ==
    /\ job.pc = "items" /\ job.index <= Len(job.items)
    /\ TitleItem.title # 0 => ResponseOk(job.respond)
    /\ \E requery \in {0, 1}, choice \in 0..Len(Works) :
          LET match == chooseMatchByTitle(TitleItem.title, requery, choice)
          IN  job' = [job EXCEPT
                         !.index = @ + 1,
                         !.updates = IF TitleItem.title # 0 /\ match.id # 0
                                     THEN Append(@, TitleUpdate(lib, TitleItem, match))
                                     ELSE @]
    /\ TitleFrame

\* main: searchMovie throws on a response that is not ok; the catch sets
\* process.exitCode = 1
TitleSearchFails ==
    /\ job.pc = "items" /\ job.index <= Len(job.items)
    /\ TitleItem.title # 0 /\ ~ResponseOk(job.respond)
    /\ job' = [job EXCEPT !.pc = "done", !.exitCode = 1]
    /\ TitleFrame

\* main: `if (!updates.length) return`
TitleNoUpdates ==
    /\ job.pc = "items" /\ job.index > Len(job.items)
    /\ job.updates = <<>>
    /\ job' = [job EXCEPT !.pc = "done"]
    /\ TitleFrame

\* main: the updates are applied to copies of the lists and saveLibrary is
\* called; the script declares and imports no saveLibrary, the call throws a
\* ReferenceError, main rejects and the catch sets process.exitCode = 1. The
\* library file is not written.
TitleSave ==
    /\ job.pc = "items" /\ job.index > Len(job.items)
    /\ job.updates # <<>>
    /\ job' = [job EXCEPT !.pc = "done", !.exitCode = 1]
    /\ TitleFrame

NextTitleImport == TitleTurn \/ TitleSearchFails \/ TitleNoUpdates \/ TitleSave

SpecTitleImport == InitTitleImport /\ [][NextTitleImport]_vars

\* C22: a run of import_douban in which at least one item was matched ends with
\* the library written, the matched entries in watched, and exit code 0.
C22_MatchedRunWritesLibrary ==
    (job.pc = "done" /\ job.updates # <<>> /\ job.index > Len(job.items)) =>
        /\ job.written
        /\ job.exitCode = 0
        /\ \A i \in 1..Len(job.updates) : findIndex(lib.watched, job.updates[i].id) # 0

\* C22, for the runs without a match: nothing is written and the run succeeds.
C22_UnmatchedRunSucceeds ==
    (job.pc = "done" /\ job.updates = <<>> /\ job.index > Len(job.items)) =>
        /\ ~job.written
        /\ job.exitCode = 0

\* ------------------------------------------------------------- pickBestMatch
MaxResults == 3

\* Candidates of a search: title 1, the same title in other spacing and capitals,
\* or title 2; a year; a popularity, 0 when the field is absent.
Candidates ==
    {[title |-> t, year |-> y, popularity |-> p, media_type |-> "movie", imdb_id |-> 0] :
        t \in {1, TitleVariant + 1, 2}, y \in {1, 2}, p \in {0, 9}}

Numbered(list) == [i \in 1..Len(list) |-> list[i] @@ [id |-> i]]

InitPick ==
    /\ \E list \in SeqsUpTo(Candidates, MaxResults), title \in {1, TitleVariant + 1},
          year \in {0, 1} :
          job = [pc |-> "search", results |-> Numbered(list), title |-> title,
                 year |-> year, best |-> NoWork]
    /\ lib = EmptyLibrary
    /\ last = NoRun
    /\ clock = 0
    /\ ops = 0
    /\ mrg = [pc |-> "off"]
    /\ snap = [pc |-> "off"]
    /\ outFile = [exists |-> FALSE, items |-> <<>>]
    /\ cred = [pc |-> "off"]

\* best = pickBestMatch(combined, title, year)
CallPickBestMatch ==
    /\ job.pc = "search"
    /\ job' = [job EXCEPT !.pc = "picked",
                          !.best = pickBestMatch(job.results, job.title, job.year)]
    /\ UNCHANGED <<lib, last, clock, ops, mrg, snap, outFile, cred>>

NextPick == CallPickBestMatch

SpecPick == InitPick /\ [][NextPick]_vars

OfYear == {i \in 1..Len(job.results) : job.year # 0 => job.results[i].year = job.year}
ExactOfYear ==
    {i \in OfYear : normaliseTitle(job.results[i].title) = normaliseTitle(job.title)}
Remaining == IF Cardinality(ExactOfYear) > 1 THEN ExactOfYear ELSE OfYear

\* C23: pickBestMatch returns no match or a candidate; with a year given the
\* candidate is of that year; the only candidate of the year whose title equals
\* the query, spacing and case aside, is returned whatever the popularities;
\* otherwise the most popular remaining candidate is returned; and no match
\* when no candidate is of the year.
C23_PickBestMatch ==
    job.pc = "picked" =>
        /\ job.best = NoWork \/ \E i \in 1..Len(job.results) : job.best = job.results[i]
        /\ (job.year # 0 /\ job.best # NoWork) => job.best.year = job.year
        /\ Cardinality(ExactOfYear) = 1 => \A i \in ExactOfYear : job.best = job.results[i]
        /\ (Cardinality(ExactOfYear) # 1 /\ OfYear # {}) =>
              \E i \in Remaining :
                  /\ job.best = job.results[i]
                  /\ \A k \in Remaining :
                        job.results[k].popularity <= job.results[i].popularity
        /\ OfYear = {} => job.best = NoWork

\* Three candidates of the year, the least popular alone with the title of the
\* query in other spacing and capitals: it is the one returned.
C23_Witness ==
    /\ job.pc = "picked"
    /\ Len(job.results) = MaxResults /\ Cardinality(OfYear) = MaxResults
    /\ Cardinality(ExactOfYear) = 1
    /\ job.best.title # job.title
    /\ normaliseTitle(job.best.title) = normaliseTitle(job.title)
    /\ \E k \in OfYear : job.results[k].popularity > job.best.popularity

\* ------------------------------------------------------ promote_movie, a run
\* Libraries with up to two watching entries, a watched and a wishlist entry.
PromoteLibraries ==
    {[EmptyLibrary EXCEPT
         !.watching = watching,
         !.watched = <<Entry(3, 3, "movie", "watched", TRUE, <<1>>, 1, 8, 0)>>,
         !.wishlist = <<Entry(4, 4, "", "", FALSE, <<>>, 0, -1, 0)>>] :
       watching \in {<<>>,
                     <<Entry(1, 1, "movie", "watching", FALSE, <<>>, 0, -1, 1)>>,
                     <<Entry(1, 1, "tv", "watching", TRUE, <<1>>, 1, 6, 1),
                       Entry(2, 2, "", "", FALSE, <<>>, MaxDay, -1, 0)>>}}

\* What the user types at the index prompt: numbers separated by commas.
MaxChoice == 2
Choices == SeqsUpTo(0..3, MaxChoice) \ {<<>>}

\* choice.split(...).map(Number).filter(n => Number.isInteger(n) && n > 0 &&
\* n <= watching.length)
validIndexes(choice, watching) == SelectSeq(choice, LAMBDA n : n > 0 /\ n <= Len(watching))

InitPromote ==
    /\ lib \in PromoteLibraries
    /\ \E choice \in Choices, ans \in PromoteAnswers, ratingInput \in {-1, 8, 11} :
          job = [pc |-> "start", choice |-> choice, answers |-> ans,
                 ratingInput |-> ratingInput, pre |-> lib, written |-> FALSE]
    /\ last = NoRun
    /\ clock = 0
    /\ ops = 0
    /\ mrg = [pc |-> "off"]
    /\ snap = [pc |-> "off"]
    /\ outFile = [exists |-> FALSE, items |-> <<>>]
    /\ cred = [pc |-> "off"]

PromoteFrame == UNCHANGED <<last, clock, ops, mrg, snap, outFile, cred>>

\* main returns before saveLibrary: nothing to promote, 0 typed, or no valid index
PromoteReturns ==
    /\ job.pc = "start"
    /\ \/ lib.watching = <<>>
       \/ job.choice = <<0>>
       \/ validIndexes(job.choice, lib.watching) = <<>>
    /\ job' = [job EXCEPT !.pc = "done"]
    /\ UNCHANGED lib
    /\ PromoteFrame

\* main with valid indexes: the entries are moved and the library is saved
PromoteSaves ==
    /\ job.pc = "start"
    /\ lib.watching # <<>> /\ job.choice # <<0>>
    /\ validIndexes(job.choice, lib.watching) # <<>>
    /\ lib' = promote(lib, validIndexes(job.choice, lib.watching),
                      PromoteDate(job.answers.dateInput, job.answers.today, job.answers.tz),
                      PromoteRating(job.ratingInput))
    /\ job' = [job EXCEPT !.pc = "done", !.written = TRUE]
    /\ PromoteFrame

NextPromote == PromoteReturns \/ PromoteSaves

SpecPromote == InitPromote /\ [][NextPromote]_vars

Selected == SeqToSet(validIndexes(job.choice, job.pre.watching))
GivenDate == PromoteDate(job.answers.dateInput, job.answers.today, job.answers.tz)

RECURSIVE Distinct(_)
Distinct(q) ==
    IF q = <<>> THEN <<>>
    ELSE LET front == Distinct(SubSeq(q, 1, Len(q) - 1))
         IN  IF q[Len(q)] \in SeqToSet(front) THEN front ELSE Append(front, q[Len(q)])

\* C24: a run of promote_movie that saves has moved exactly the selected watching
\* entries to watched, with status watched and the given date among their dates
\* beside the dates they had; the unselected watching entries and the wishlist
\* are as before; a run with 0 or no valid index typed leaves the library as it
\* was; and an index typed twice gives the library of the index typed once.
C24_PromoteMovesSelected ==
    job.pc = "done" =>
        /\ job.written = (job.choice # <<0>> /\ Selected # {})
        /\ ~job.written => lib = job.pre
        /\ job.written =>
              /\ \A i \in Selected :
                    LET movie == job.pre.watching[i]
                        k == findIndex(lib.watched, movie.id)
                    IN  /\ findIndex(lib.watching, movie.id) = 0
                        /\ k # 0
                        /\ lib.watched[k].status = "watched"
                        /\ lib.watched[k].title = movie.title
                        /\ SeqToSet(lib.watched[k].watchDates)
                               = (SeqToSet(extractDates(movie)) \ {0}) \cup {GivenDate}
              /\ lib.watching = SelectSeq(job.pre.watching,
                                    LAMBDA e : \A i \in Selected : job.pre.watching[i] # e)
              /\ lib.wishlist = job.pre.wishlist
              /\ Len(lib.watched) = Len(job.pre.watched) + Cardinality(Selected)
              /\ lib = promote(job.pre,
                               Distinct(validIndexes(job.choice, job.pre.watching)),
                               GivenDate, PromoteRating(job.ratingInput))

\* The first of two watching entries typed twice: it alone has moved.
C24_Witness ==
    /\ job.pc = "done" /\ job.written
    /\ job.choice = <<1, 1>>
    /\ Len(job.pre.watching) = 2
    /\ Len(lib.watching) = 1 /\ lib.watching[1] = job.pre.watching[2]
    /\ Len(lib.watched) = 2
    /\ lib.wishlist # <<>>

\* --------------------------------------------- a library file that lacks a key
\* The library file of a run: whether it exists, the keys its object has, and
\* its lists (lib holds them; a list under an absent key is empty).
LibraryKeySets == SUBSET Statuses

KeyedLibraries ==
    {[EmptyLibrary EXCEPT !.watching = watching, !.watched = watched] :
        watching \in {<<>>, <<Entry(1, 1, "movie", "watching", FALSE, <<>>, 0, -1, 1)>>},
        watched \in {<<>>, <<Entry(3, 3, "movie", "watched", TRUE, <<1>>, 1, 8, 0)>>}}

\* loadLibrary of add_movie and promote_movie: the keys of the object it returns.
\* Every list that is not an array is replaced by [], and a missing file gives
\* { watching: [], watched: [], wishlist: [] }.
loadLibraryKeys(fileExists, keys) == Statuses

\* loadLibrary of the earlier add_movie: JSON.parse(raw) as it is; a missing
\* file gives { watching: [], watched: [], wishlist: [] }.
loadLibraryKeysV1(fileExists, keys) == IF fileExists THEN keys ELSE Statuses

\* insertEntry of the earlier add_movie on an object with the given keys: the
\* bucket of entry.status is created when absent, then findIndex is called on
\* every value of buckets; a value that is undefined makes the call throw a
\* TypeError.
insertEntryV1Throws(keys, entry) == \E k \in Statuses \ {entry.status} : k \notin keys

InitMissingKey ==
    /\ \E fileExists \in BOOLEAN, keys \in LibraryKeySets, library \in KeyedLibraries,
          script \in {"add_movie", "add_movie_v1", "promote_movie"},
          status \in Statuses, id \in {1, 2} :
          /\ fileExists => \A k \in Statuses : library[k] # <<>> => k \in keys
          /\ ~fileExists => (library = EmptyLibrary /\ keys = {})
          /\ script = "promote_movie" => (status = "watched" /\ id = 1)
          /\ lib = library
          /\ job = [pc |-> "start", script |-> script, fileExists |-> fileExists,
                    keys |-> keys, status |-> status, id |-> id, pre |-> library,
                    written |-> FALSE, exitCode |-> 0]
    /\ last = NoRun
    /\ clock = 0
    /\ ops = 0
    /\ mrg = [pc |-> "off"]
    /\ snap = [pc |-> "off"]
    /\ outFile = [exists |-> FALSE, items |-> <<>>]
    /\ cred = [pc |-> "off"]

MissingKeyFrame == UNCHANGED <<last, clock, ops, mrg, snap, outFile, cred>>

MissingKeyEntry == AddMovieEntry(job.id, "movie", job.status, <<>>, 0, -1, "utc")

\* main of add_movie: loadLibrary, insertEntry, saveLibrary
MissingKeyAddMovie ==
    /\ job.pc = "start" /\ job.script = "add_movie"
    /\ lib' = insertEntry(lib, MissingKeyEntry)
    /\ job' = [job EXCEPT !.pc = "done", !.written = TRUE, !.fileExists = TRUE,
                          !.keys = loadLibraryKeys(job.fileExists, job.keys)]
    /\ MissingKeyFrame

\* main of the earlier add_movie when insertEntry returns
MissingKeyAddMovieV1 ==
    /\ job.pc = "start" /\ job.script = "add_movie_v1"
    /\ ~insertEntryV1Throws(loadLibraryKeysV1(job.fileExists, job.keys), MissingKeyEntry)
    /\ lib' = insertEntryV1(lib, MissingKeyEntry)
    /\ job' = [job EXCEPT !.pc = "done", !.written = TRUE, !.fileExists = TRUE,
                          !.keys = loadLibraryKeysV1(job.fileExists, job.keys)
                                       \cup {job.status}]
    /\ MissingKeyFrame

\* main of the earlier add_movie when insertEntry throws: main rejects, the
\* catch reports and sets process.exitCode = 1; saveLibrary is not reached
MissingKeyAddMovieV1Throws ==
    /\ job.pc = "start" /\ job.script = "add_movie_v1"
    /\ insertEntryV1Throws(loadLibraryKeysV1(job.fileExists, job.keys), MissingKeyEntry)
    /\ job' = [job EXCEPT !.pc = "done", !.exitCode = 1]
    /\ UNCHANGED lib
    /\ MissingKeyFrame

\* main of promote_movie with nothing in watching: it reports and returns
MissingKeyPromoteNothing ==
    /\ job.pc = "start" /\ job.script = "promote_movie"
    /\ lib.watching = <<>>
    /\ job' = [job EXCEPT !.pc = "done"]
    /\ UNCHANGED lib
    /\ MissingKeyFrame

\* main of promote_movie with the first entry chosen
MissingKeyPromote ==
    /\ job.pc = "start" /\ job.script = "promote_movie"
    /\ lib.watching # <<>>
    /\ lib' = promote(lib, <<1>>, 1, -1)
    /\ job' = [job EXCEPT !.pc = "done", !.written = TRUE,
                          !.keys = loadLibraryKeys(job.fileExists, job.keys)]
    /\ MissingKeyFrame

NextMissingKey ==
    \/ MissingKeyAddMovie
    \/ MissingKeyAddMovieV1
    \/ MissingKeyAddMovieV1Throws
    \/ MissingKeyPromoteNothing
    \/ MissingKeyPromote

SpecMissingKey == InitMissingKey /\ [][NextMissingKey]_vars

IdsOfLibrary(library) == {e.id : e \in SeqToSet(flattenLists(library))}

\* The run completed as on a library whose absent lists are empty: no error, the
\* entries the file held are all still in the library, and an added entry is in
\* the list of its status.
CompletedAsOnEmptyLists ==
    /\ job.exitCode = 0
    /\ IdsOfLibrary(job.pre) \subseteq IdsOfLibrary(lib)
    /\ job.script # "promote_movie" =>
          /\ job.written
          /\ findIndex(lib[job.status], job.id) # 0

\* C26: every script run on a missing library file, or on a file that lacks one
\* of the keys watching / watched / wishlist, completes as on a library with that
\* list empty: it does not fail and it keeps the other lists.
C26_AbsentKeyIsEmptyList ==
    job.pc = "done" => CompletedAsOnEmptyLists

\* C26, for the scripts whose loadLibrary replaces the absent lists.
C26_NormalisingScriptsComplete ==
    (job.pc = "done" /\ job.script # "add_movie_v1") => CompletedAsOnEmptyLists

\* ------------------------------------------------- two runs that overlap
\* add_movie and promote_movie as two processes on one library file (lib). Each
\* holds the object its loadLibrary returned until its saveLibrary writes it;
\* the prompts between the two are where the other process can run.
OverlapAddIds == {2, 4}

InitOverlap ==
    /\ lib \in PromoteLibraries
    /\ \E id \in OverlapAddIds, status \in Statuses, day \in {1, 2} :
          job = [add |-> [pc |-> "start", library |-> EmptyLibrary,
                          entry |-> AddMovieEntry(id, "movie", status, <<>>, 0, -1, "utc")],
                 promote |-> [pc |-> "start", library |-> EmptyLibrary, day |-> day,
                              written |-> FALSE],
                 events |-> <<>>]
    /\ last = NoRun
    /\ clock = 0
    /\ ops = 0
    /\ mrg = [pc |-> "off"]
    /\ snap = [pc |-> "off"]
    /\ outFile = [exists |-> FALSE, items |-> <<>>]
    /\ cred = [pc |-> "off"]

OverlapFrame == UNCHANGED <<last, clock, ops, mrg, snap, outFile, cred>>

\* add_movie: `const library = await loadLibrary()`
AddMovieLoads ==
    /\ job.add.pc = "start"
    /\ job' = [job EXCEPT !.add.pc = "loaded", !.add.library = lib,
                          !.events = Append(@, "addLoad")]
    /\ UNCHANGED lib
    /\ OverlapFrame

\* add_movie: the prompts are answered, insertEntry(library, entry) and
\* saveLibrary(library) write the object that was loaded
AddMovieSaves ==
    /\ job.add.pc = "loaded"
    /\ lib' = insertEntry(job.add.library, job.add.entry)
    /\ job' = [job EXCEPT !.add.pc = "done", !.events = Append(@, "addSave")]
    /\ OverlapFrame

\* promote_movie: `const library = await loadLibrary()`
PromoteMovieLoads ==
    /\ job.promote.pc = "start"
    /\ job' = [job EXCEPT !.promote.pc = "loaded", !.promote.library = lib,
                          !.events = Append(@, "promoteLoad")]
    /\ UNCHANGED lib
    /\ OverlapFrame

\* promote_movie: the watching list that was loaded is empty, or the entry with
\* id 1 is not in it and 0 is typed; main returns
PromoteMovieReturns ==
    /\ job.promote.pc = "loaded"
    /\ findIndex(job.promote.library.watching, 1) = 0
    /\ job' = [job EXCEPT !.promote.pc = "done"]
    /\ UNCHANGED lib
    /\ OverlapFrame

\* promote_movie: the entry with id 1 is chosen, library.watching and
\* library.watched are replaced and saveLibrary(library) writes the object that
\* was loaded
PromoteMovieSaves ==
    /\ job.promote.pc = "loaded"
    /\ findIndex(job.promote.library.watching, 1) # 0
    /\ lib' = promote(job.promote.library,
                      <<findIndex(job.promote.library.watching, 1)>>, job.promote.day, -1)
    /\ job' = [job EXCEPT !.promote.pc = "done", !.promote.written = TRUE,
                          !.events = Append(@, "promoteSave")]
    /\ OverlapFrame

NextOverlap ==
    \/ AddMovieLoads
    \/ AddMovieSaves
    \/ PromoteMovieLoads
    \/ PromoteMovieReturns
    \/ PromoteMovieSaves

SpecOverlap == InitOverlap /\ [][NextOverlap]_vars

BothDone == job.add.pc = "done" /\ job.promote.pc = "done"

EventAt(name) == CHOOSE i \in 1..Len(job.events) : job.events[i] = name

\* Each run loaded the library before the other saved it.
Overlapped ==
    /\ job.promote.written
    /\ EventAt("addLoad") < EventAt("promoteSave")
    /\ EventAt("promoteLoad") < EventAt("addSave")

\* The library holds what both runs did: the entry add_movie inserted is in the
\* list of its status, and the entry promote_movie moved is in watched and no
\* longer in watching.
HoldsBothUpdates ==
    /\ findIndex(lib[job.add.entry.status], job.add.entry.id) # 0
    /\ job.promote.written =>
          /\ findIndex(lib.watched, 1) # 0
          /\ findIndex(lib.watching, 1) = 0

\* C27: when an add_movie run and a promote_movie run have both finished, the
\* library file holds the updates of both, also when the two overlapped.
C27_NoUpdateLost ==
    BothDone => HoldsBothUpdates

\* C27, for two runs of which one saved before the other loaded.
C27_SequentialRunsKeepBoth ==
    (BothDone /\ ~Overlapped) => HoldsBothUpdates

RequestsFor(url) ==
    {i \in 1..Len(job.log) : job.log[i].kind = "request" /\ job.log[i].url = url}

ReturnsFor(url) == {i \in 1..Len(job.returns) : job.returns[i].url = url}

\* C28: in a run, fetchImdbFromDouban requests every url at most once; a url it
\* was called for is in exactly one of imdbCache and failCache, the two caches
\* share no url, and every call for a url returns what the first call for it
\* returned.
C28_OneRequestPerUrl ==
    /\ \A url \in DoubanUrls : Cardinality(RequestsFor(url)) <= 1
    /\ job.failCache \cap DOMAIN job.imdbCache = {}
    /\ \A url \in DoubanUrls \ {0} :
          ReturnsFor(url) # {} =>
              /\ InCaches(url)
              /\ Cardinality(RequestsFor(url)) = 1
              /\ \A i, k \in ReturnsFor(url) : job.returns[i].result = job.returns[k].result
              /\ url \in DOMAIN job.imdbCache =>
                    \A i \in ReturnsFor(url) : job.returns[i].result = job.imdbCache[url]
              /\ url \in job.failCache =>
                    \A i \in ReturnsFor(url) : job.returns[i].result = 0

\* Three calls: a url whose page holds an id called twice, and a url whose page
\* holds none; two requests, three returns.
C28_Witness ==
    /\ job.pc = "done"
    /\ Len(job.returns) = 3
    /\ \E url \in DOMAIN job.imdbCache : Cardinality(ReturnsFor(url)) = 2
    /\ \E i \in 1..Len(job.log) : job.log[i].outcome = "not_found"
    /\ Cardinality({i \in 1..Len(job.log) : job.log[i].kind = "request"}) = 2

\* ------------------------------------------------------- the ratings stored
\* What is typed at a rating prompt or given as my_rating, as a number: -1 is
\* a blank answer or an absent field, -2 a negative number.
RatingInputs == {-1, -2, 0, 3, 5, 8, 10, 11}

RatingScripts ==
    {"add_movie", "promote_movie", "add_web_video", "import_from_json",
     "import_from_json_v1"}

InitStoredRating ==
    /\ lib \in PromoteLibraries
    /\ \E script \in RatingScripts, ratingInput \in RatingInputs, status \in Statuses :
          /\ script \in {"promote_movie", "import_from_json", "import_from_json_v1"}
                => status = "watched"
          /\ job = [pc |-> "start", script |-> script, ratingInput |-> ratingInput,
                    status |-> status, id |-> 0]
    /\ last = NoRun
    /\ clock = 0
    /\ ops = 0
    /\ mrg = [pc |-> "off"]
    /\ snap = [pc |-> "off"]
    /\ outFile = [exists |-> FALSE, items |-> <<>>]
    /\ cred = [pc |-> "off"]

StoredRatingFrame == UNCHANGED <<last, clock, ops, mrg, snap, outFile, cred>>

RatingItem(id, rating) ==
    [tmdb_id |-> id, title |-> id, media_type |-> "movie", watch_date |-> Iso(1),
     my_rating |-> rating, note |-> 0]

\* add_movie: the film with id 2 is added with the answer to the rating prompt
RatingAddMovie ==
    /\ job.pc = "start" /\ job.script = "add_movie"
    /\ lib' = insertEntry(lib, AddMovieEntry(2, "movie", job.status, <<>>, 0,
                                             job.ratingInput, "utc"))
    /\ job' = [job EXCEPT !.pc = "done", !.id = 2]
    /\ StoredRatingFrame

\* promote_movie: nothing to promote
RatingPromoteNothing ==
    /\ job.pc = "start" /\ job.script = "promote_movie"
    /\ lib.watching = <<>>
    /\ job' = [job EXCEPT !.pc = "done"]
    /\ UNCHANGED lib
    /\ StoredRatingFrame

\* promote_movie: the first watching entry is promoted with the answer to the
\* rating prompt
RatingPromote ==
    /\ job.pc = "start" /\ job.script = "promote_movie"
    /\ lib.watching # <<>>
    /\ lib' = promote(lib, <<1>>, 1, PromoteRating(job.ratingInput))
    /\ job' = [job EXCEPT !.pc = "done", !.id = lib.watching[1].id]
    /\ StoredRatingFrame

\* add-web-video: `rating = ratingInput ? Number.parseFloat(ratingInput) : null`
\* is asked for a watched video only and stored as it is
RatingAddWebVideo ==
    /\ job.pc = "start" /\ job.script = "add_web_video"
    /\ lib' = addWebVideo(lib, 1, job.status, Iso(1), job.ratingInput, clock)
    /\ job' = [job EXCEPT !.pc = "done", !.id = generateId(1, clock)]
    /\ StoredRatingFrame

\* import_from_json on a file with one film whose my_rating is the input
RatingImportFromJson ==
    /\ job.pc = "start" /\ job.script = "import_from_json"
    /\ lib' = importFromJson(lib, <<RatingItem(2, job.ratingInput)>>, "utc", TRUE)
    /\ job' = [job EXCEPT !.pc = "done", !.id = 2]
    /\ StoredRatingFrame

\* the import_from_json whose parseRating returns Number(raw)
RatingImportFromJsonV1 ==
    /\ job.pc = "start" /\ job.script = "import_from_json_v1"
    /\ lib' = importFromJson(lib, <<RatingItem(2, job.ratingInput)>>, "utc", FALSE)
    /\ job' = [job EXCEPT !.pc = "done", !.id = 2]
    /\ StoredRatingFrame

NextStoredRating ==
    \/ RatingAddMovie
    \/ RatingPromoteNothing
    \/ RatingPromote
    \/ RatingAddWebVideo
    \/ RatingImportFromJson
    \/ RatingImportFromJsonV1

SpecStoredRating == InitStoredRating /\ [][NextStoredRating]_vars

\* The rating the documentation of the import gives for a numeric my_rating.
ScaledRating(raw) ==
    IF raw < 0 THEN 0
    ELSE IF raw <= 5 THEN 2 * raw
    ELSE IF raw <= 10 THEN raw
    ELSE 10

RatingsInRange ==
    \A e \in SeqToSet(flattenLists(lib)) : e.rating # -1 => e.rating \in 0..10

ImportedRatingScaled ==
    (job.id # 0 /\ job.ratingInput # -1) =>
        \E e \in SeqToSet(lib.watched) :
            e.id = job.id /\ e.rating = ScaledRating(job.ratingInput)

\* C29: every rating a script has stored is a number from 0 to 10, whatever was
\* typed or given; and the rating import_from_json stores for a numeric
\* my_rating is twice the input for 0..5, the input for 5..10, 0 below and 10
\* above.
C29_StoredRatingsInRange ==
    job.pc = "done" =>
        /\ RatingsInRange
        /\ job.script \in {"import_from_json", "import_from_json_v1"}
              => ImportedRatingScaled

\* C29, for add_movie, promote_movie and the import_from_json whose parseRating
\* scales and clamps.
C29_CheckedScriptsInRange ==
    (job.pc = "done"
        /\ job.script \in {"add_movie", "promote_movie", "import_from_json"}) =>
        /\ RatingsInRange
        /\ job.script = "import_from_json" => ImportedRatingScaled

\* ------------------------------------- loadLibrary of the snapshot builder
\* Library files in which an id may be in several lists: per id and list, the
\* entry is absent ("none"), has no status field ("") or has one.
ListOrder == <<"watching", "watched", "wishlist">>

ListDates(list) ==
    IF list = "watching" THEN <<>> ELSE IF list = "watched" THEN <<1>> ELSE <<MaxDay>>

StatusFields == {"none", "", "watching", "watched"}

RECURSIVE ListedEntries(_, _, _)
ListedEntries(fields, list, id) ==
    IF id > MaxId THEN <<>>
    ELSE (IF fields[id][list] = "none" THEN <<>>
          ELSE <<Entry(id, id, "", fields[id][list], ListDates(list) # <<>>,
                       ListDates(list), 0, -1, 0)>>)
             \o ListedEntries(fields, list, id + 1)

InitLoadLibrary ==
    /\ \E fields \in [Ids -> [Statuses -> StatusFields]] :
          /\ lib = [watching |-> ListedEntries(fields, "watching", 1),
                    watched |-> ListedEntries(fields, "watched", 1),
                    wishlist |-> ListedEntries(fields, "wishlist", 1),
                    undefined |-> <<>>]
          /\ job = [pc |-> "start", fields |-> fields, entries |-> <<>>]
    /\ last = NoRun
    /\ clock = 0
    /\ ops = 0
    /\ mrg = [pc |-> "off"]
    /\ snap = [pc |-> "off"]
    /\ outFile = [exists |-> FALSE, items |-> <<>>]
    /\ cred = [pc |-> "off"]

\* main: `const entries = await loadLibrary()`
CallLoadLibrary ==
    /\ job.pc = "start"
    /\ job' = [job EXCEPT !.pc = "loaded", !.entries = loadLibrary(lib)]
    /\ UNCHANGED <<lib, last, clock, ops, mrg, snap, outFile, cred>>

\* main: the entries are handed to buildSnapshot
LoadLibraryEnd ==
    /\ job.pc = "loaded"
    /\ job' = [job EXCEPT !.pc = "done"]
    /\ UNCHANGED <<lib, last, clock, ops, mrg, snap, outFile, cred>>

NextLoadLibrary == CallLoadLibrary \/ LoadLibraryEnd

SpecLoadLibrary == InitLoadLibrary /\ [][NextLoadLibrary]_vars

\* The places of ListOrder whose list holds the id, in the order of processing.
HoldingLists(id) == {k \in 1..3 : job.fields[id][ListOrder[k]] # "none"}

ExplicitLists(id) == {k \in HoldingLists(id) : job.fields[id][ListOrder[k]] # ""}

DatesInFile(id) == UNION {SeqToSet(ListDates(ListOrder[k])) : k \in HoldingLists(id)}

OnePerId ==
    /\ \A i, k \in 1..Len(job.entries) : job.entries[i].id = job.entries[k].id => i = k
    /\ {job.entries[i].id : i \in 1..Len(job.entries)}
           = {id \in Ids : HoldingLists(id) # {}}

\* C30: loadLibrary of the snapshot builder yields one entry per id of the file;
\* the status of an entry is its status field when it has one and the name of
\* its list otherwise; for an id in several lists without a status field the
\* dates are those of all its occurrences and the status is the name of the
\* last list processed.
C30_StatusOfLastList ==
    job.pc # "start" =>
        /\ OnePerId
        /\ \A i \in 1..Len(job.entries) :
              LET e == job.entries[i]
                  final == Max(HoldingLists(e.id))
              IN  /\ SeqToSet(e.watchDates) = DatesInFile(e.id)
                  /\ final \in ExplicitLists(e.id)
                        => e.status = job.fields[e.id][ListOrder[final]]
                  /\ ExplicitLists(e.id) = {} => e.status = ListOrder[final]

\* C30, with the status upsert computes: the status field of the last occurrence
\* that has one, and the name of the first list that holds the id otherwise.
C30_StatusOfFirstList ==
    job.pc # "start" =>
        /\ OnePerId
        /\ \A i \in 1..Len(job.entries) :
              LET e == job.entries[i]
              IN  /\ SeqToSet(e.watchDates) = DatesInFile(e.id)
                  /\ ExplicitLists(e.id) # {}
                        => e.status = job.fields[e.id][ListOrder[Max(ExplicitLists(e.id))]]
                  /\ ExplicitLists(e.id) = {}
                        => e.status = ListOrder[Min(HoldingLists(e.id))]

====
